---- MODULE Spec2Model ----
(***************************************************************************)
(* The watch-and-upload pipeline of go-paperless-uploader                  *)
(* (cmd/paperless-uploader/main.go): watchDirectory starts the event-loop  *)
(* goroutine, subscribes to the watch folder, sweeps the files that are    *)
(* already there with filepath.Walk and then blocks on the done channel.   *)
(* Both flows call client.UploadDocument and, on success,                  *)
(* handlePostUpload.  The file system, the remote service and the fsnotify *)
(* watcher are the environment.                                            *)
(***************************************************************************)
EXTENDS Naturals, Sequences, FiniteSets

(* Bounds of the model: how many files the environment creates while the   *)
(* program runs, and how many errors the watcher reports.                  *)
MaxCreates == 2
MaxErrors == 1
(* How many times the process is stopped and started again.                *)
MaxRestarts == 1
(* How many events that are no creations the watcher delivers.             *)
MaxOthers == 1
(* How many control requests the service control manager sends.            *)
MaxRequests == 2
(* How long an API key is at most, in bytes.                               *)
MaxKeyLen == 6

(* The paths of the model: two files directly in the watch folder "w" and  *)
(* one in its subdirectory "w/sub", with the base name of a top-level one. *)
SubDirPath == "w/sub"
Paths == {"w/a", "w/sub/a", "w/z"}
TopLevel == {"w/a", "w/z"}
InSub == Paths \ TopLevel

(* filepath.Base *)
Base(p) == IF p = "w/z" THEN "z" ELSE "a"

(* cfg.PostUploadAction: "" (none), "delete" or "move".                    *)
Actions == {"", "delete", "move"}

Flows == {"sweep", "loop"}

VARIABLES
    cfgAction,      \* cfg.PostUploadAction
    watchDir,       \* the watch folder exists
    subDir,         \* "none", "ok" or "unreadable": the subdirectory w/sub
    files,          \* the regular files that exist under the watch folder
    processedDir,   \* cfg.ProcessedFolder exists (only the "move" action looks)
    processed,      \* source paths of the files now in the processed folder
    mainPc,         \* position of watchDirectory
    mainErr,        \* watchDirectory returned a non-nil error
    walkTodo,       \* entries filepath.Walk has listed and not yet visited
    sweepCur,       \* path the walk function is handling
    loopPc,         \* position of the event-loop goroutine
    loopCur,        \* event.Name the loop is handling
    events,         \* event.Name of the events the watcher has not yet delivered
    eventOps,       \* event.Op of these events, as the set of the operations it carries
    errs,           \* errors the watcher has not yet delivered
    subscribed,     \* watcher.Add has returned nil
    closed,         \* watcher.Events and watcher.Errors are closed
    lastLog,        \* what the last handlePostUpload logged
    restarts,       \* number of times the process has been stopped and started again
    tagIDs,         \* the tag ids runApp resolved, the argument of watchDirectory
    runPc,          \* position of runApp
    runErr,         \* what runApp returned: "-" (not yet), "nil" or the error
    argv,           \* the arguments of the command line
    flagWatch,      \* -watch
    flagFile,       \* -file ("" when not given)
    flagCreate,     \* -create-config
    flagForce,      \* -force
    configYaml,     \* the file config.yaml: "absent", "valid" or "malformed"
    cfgTags,        \* cfg.Tags, the configured tag names
    allTags,        \* what client.GetTags returned, until the ids are resolved
    warned,         \* the tag names runApp has logged a warning for
    \* one call of client.UploadDocument, looked at closely
    clPc,           \* position of the call: "idle" when none is looked at
    clCaller,       \* the flow that makes the call
    clPath,         \* filePath, the argument of the call
    clOpenOk,       \* os.Open of the file succeeds
    clSendOk,       \* HTTPClient.Do gets a response
    clStatus,       \* resp.StatusCode
    clBody,         \* the response body, a sequence of characters
    clRequests,     \* number of requests sent
    clErr,          \* the error UploadDocument returned
    clNext,         \* where the caller goes with that result
    ignored,        \* history: events the loop received and dropped
    late,           \* history: <<file, run>> of the files created in the subdirectory after the
                    \* sweep of that run had read its names
    service,        \* the Windows service: position of Execute, statuses reported, requests
    apiLog,         \* the API key and what the startup log line shows of it
    conf,           \* one call of config.Load: environment, config file, position, result
    \* history of the run, written and never read by the program
    initFiles,      \* the files present when the pipeline (last) started
    created,        \* number of files the environment has created
    errsLogged,     \* number of watcher errors the loop has logged
    sweepAttempted, \* paths the sweep has called UploadDocument on
    owed,           \* files created in the watch folder during the sweep, no upload attempted since
    okPending,      \* per flow: an upload succeeded and handlePostUpload has not run for it yet
    dispBy,         \* per path: the flows that ran handlePostUpload on it
    sentTags        \* the tag-id lists that calls of UploadDocument were given

fsVars == <<watchDir, subDir, files, processedDir, processed>>
mainVars == <<mainPc, mainErr, walkTodo, sweepCur>>
loopVars == <<loopPc, loopCur>>
watcherVars == <<events, eventOps, errs, subscribed, closed>>
histVars == <<initFiles, created, errsLogged, sweepAttempted, owed, okPending, dispBy, sentTags>>
appVars == <<runPc, runErr, argv, flagWatch, flagFile, flagCreate, flagForce, configYaml, cfgTags,
             allTags, warned>>
clientVars == <<clPc, clCaller, clPath, clOpenOk, clSendOk, clStatus, clBody, clRequests, clErr, clNext>>
otherVars == <<conf, ignored, late, service, apiLog>>
runVars == <<restarts, tagIDs, appVars, clientVars, otherVars>>
vars == <<cfgAction, runVars, fsVars, mainVars, loopVars, watcherVars, lastLog, histVars>>

(***************************************************************************)
(* runApp: the tag catalog and the configured tag names                    *)
(***************************************************************************)

(* tagMap[tag.Name] = tag.ID over allTags in order: a later entry of the   *)
(* same name overwrites an earlier one.                                    *)
RECURSIVE TagMap(_)
TagMap(tags) ==
    IF tags = <<>> THEN <<>>
    ELSE LET m == TagMap(SubSeq(tags, 1, Len(tags) - 1))
             t == tags[Len(tags)]
         IN  [n \in DOMAIN m \cup {t.Name} |-> IF n = t.Name THEN t.ID ELSE m[n]]

(* Faulty variant: a configured name missing from the catalog gets id 0.   *)
RECURSIVE ZeroForMissing_ResolveTags(_, _)
ZeroForMissing_ResolveTags(names, tagMap) ==
    IF names = <<>> THEN <<>>
    ELSE (IF Head(names) \in DOMAIN tagMap THEN <<tagMap[Head(names)]>> ELSE <<0>>)
         \o ZeroForMissing_ResolveTags(Tail(names), tagMap)
(* The loop over cfg.Tags: the id of each configured name the map holds,   *)
(* in the order of the configuration; the other names are skipped.         *)
RECURSIVE ResolveTags(_, _)
ResolveTags(names, tagMap) ==
    IF names = <<>> THEN <<>>
    ELSE (IF Head(names) \in DOMAIN tagMap THEN <<tagMap[Head(names)]>> ELSE <<>>)
         \o ResolveTags(Tail(names), tagMap)

(* The configured names the loop over cfg.Tags logs a warning for.         *)
WarnedTags(names, tagMap) == {names[i] : i \in {j \in 1..Len(names) : names[j] \notin DOMAIN tagMap}}

(* The run of the pipeline model: tags "invoices" and "missing" are        *)
(* configured and the service knows "invoices" as tag 1.                   *)
WatchCatalog == <<[Name |-> "invoices", ID |-> 1]>>
WatchTagNames == <<"invoices", "missing">>

(***************************************************************************)
(* client.UploadDocument: errors and their messages                        *)
(***************************************************************************)

(* http.StatusOK *)
StatusOK == 200

(* An error value: nil, or an error with its message, a sequence of        *)
(* characters and of literal pieces of the format strings.                 *)
NilErr == [isNil |-> TRUE, msg |-> <<>>]
Errorf(msg) == [isNil |-> FALSE, msg |-> msg]

(* The verb %d: the decimal digits of a number.                            *)
Digit(d) == CASE d = 0 -> "0" [] d = 1 -> "1" [] d = 2 -> "2" [] d = 3 -> "3" [] d = 4 -> "4"
              [] d = 5 -> "5" [] d = 6 -> "6" [] d = 7 -> "7" [] d = 8 -> "8" [] OTHER -> "9"
RECURSIVE Itoa(_)
Itoa(n) == IF n < 10 THEN <<Digit(n)>> ELSE Itoa(n \div 10) \o <<Digit(n % 10)>>

(* Faulty variant: the error of os.Open is dropped from the message.       *)
NoCause_OpenError(path) == Errorf(<<"failed to open file">>)
(* fmt.Errorf("failed to open file: %w", err), err being the *PathError of *)
(* os.Open, whose text is "open " + path + ": " + the system's reason.     *)
OpenError(path) ==
    Errorf(<<"failed to open file: ", "open ", path, ": ", "no such file or directory">>)

(* Faulty variant: the response body is left out of the message.           *)
NoBody_StatusError(status, body) ==
    Errorf(<<"failed to upload document: received status code ">> \o Itoa(status))
(* fmt.Errorf("failed to upload document: received status code %d, body:   *)
(* %s", resp.StatusCode, string(respBody))                                 *)
StatusError(status, body) ==
    Errorf(<<"failed to upload document: received status code ">> \o Itoa(status)
           \o <<", body: ">> \o body)

(* Faulty variant: every 2xx status is taken as success.                   *)
Any2xx_StatusRefused(status) == status < 200 \/ status > 299
(* if resp.StatusCode != http.StatusOK *)
StatusRefused(status) == status # StatusOK

(***************************************************************************)
(* config.Load                                                             *)
(***************************************************************************)

(* The fields of Config, by their mapstructure keys.                       *)
Options == {"paperless_url", "api_key", "watch_folder", "post_upload_action",
            "processed_folder", "tags"}

(* The keys given a default by viper.SetDefault: every key but api_key.    *)
DefaultKeys == {"paperless_url", "watch_folder", "post_upload_action", "processed_folder", "tags"}

(* A string is the sequence of its pieces, a list of tags the sequence of  *)
(* its names; nil is the empty sequence.                                   *)
Nil == <<>>
Default(k) ==
    CASE k = "paperless_url" -> <<"http://localhost:8000">>
      [] k = "watch_folder" -> <<"watch">>
      [] k = "post_upload_action" -> <<"">>
      [] k = "processed_folder" -> <<"processed">>
      [] OTHER -> Nil

(* The zero value of a field of Config.                                    *)
Zero(k) == IF k = "tags" THEN Nil ELSE <<"">>

(* The environment variable viper looks up for a key: the prefix, "_",     *)
(* and the key in upper case.                                              *)
EnvName(k) ==
    CASE k = "paperless_url" -> "UPLOADER_PAPERLESS_URL"
      [] k = "api_key" -> "UPLOADER_API_KEY"
      [] k = "watch_folder" -> "UPLOADER_WATCH_FOLDER"
      [] k = "post_upload_action" -> "UPLOADER_POST_UPLOAD_ACTION"
      [] k = "processed_folder" -> "UPLOADER_PROCESSED_FOLDER"
      [] OTHER -> "UPLOADER_TAGS"
EnvNames == {EnvName(k) : k \in Options}

(* The value of an environment variable that is set, and of a key that the *)
(* config file gives.                                                      *)
EnvValue(k) == IF k = "tags" THEN <<"tagA", ",", "tagB">> ELSE <<"env.", k>>
FileValue(k) == IF k = "tags" THEN <<"tag1", "tag2">> ELSE <<"file.", k>>

(* The decoding of a string into a field: a list field is the string split *)
(* at the commas.                                                          *)
SplitComma(s) == SelectSeq(s, LAMBDA t : t # ",")
DecodeEnv(k) == IF k = "tags" THEN SplitComma(EnvValue(k)) ELSE EnvValue(k)

(* The keys viper.Unmarshal decodes: those of the config file and of the   *)
(* defaults.  A key only the environment gives is not among them.          *)
AllKeys(keys) == keys \cup DefaultKeys

(* viper's lookup of one key: environment, then config file, then default. *)
Find(k, env, keys) ==
    IF EnvName(k) \in env THEN DecodeEnv(k)
    ELSE IF k \in keys THEN FileValue(k)
    ELSE IF k \in DefaultKeys THEN Default(k)
    ELSE Nil

(* viper.Unmarshal(&cfg): a key that is known and has a value sets its     *)
(* field, every other field keeps the zero value.                          *)
Unmarshal(env, keys) ==
    [k \in Options |->
        IF k \in AllKeys(keys) /\ Find(k, env, keys) # Nil THEN Find(k, env, keys) ELSE Zero(k)]

(* The config files looked at: none, one that cannot be read, one that is  *)
(* not YAML, and one that gives some of the keys, with values of the       *)
(* type of their fields.                                                   *)
FileStates == {"absent", "unreadable", "unparsable", "ok"}
FileKeySets == {{}, {"paperless_url", "api_key"}, {"paperless_url", "watch_folder", "tags"}, Options}

NoConfig == [k \in Options |-> Zero(k)]
NoConfigCall ==
    conf = [pc |-> "idle", env |-> {}, file |-> "absent", keys |-> {}, cfg |-> NoConfig, err |-> FALSE]

(* The program is not run as a service.                                    *)
NoService == [pc |-> "notCalled", changes |-> <<>>, r |-> <<>>, asked |-> 0]

(* The startup log line is not looked at.                                  *)
NoApiLog == [pc |-> "idle", key |-> <<>>, shown |-> <<>>]

(* The state of the variables of the closely looked-at call when no call   *)
(* is looked at.                                                           *)
NoClientCall ==
    /\ clPc = "idle"
    /\ clCaller = "-"
    /\ clPath = "-"
    /\ clOpenOk = TRUE
    /\ clSendOk = TRUE
    /\ clStatus = StatusOK
    /\ clBody = <<>>
    /\ clRequests = 0
    /\ clErr = NilErr
    /\ clNext = "-"

(* The state when watchDirectory is entered. *)
Init ==
    /\ cfgAction \in Actions
    /\ watchDir \in BOOLEAN
    /\ subDir \in (IF watchDir THEN {"none", "ok", "unreadable"} ELSE {"none"})
    /\ files \in (IF watchDir
                    THEN {s \in SUBSET Paths : (subDir = "none") => (s \cap InSub = {})}
                    ELSE {{}})
    /\ processedDir \in (IF cfgAction = "move" THEN BOOLEAN ELSE {FALSE})
    /\ processed = {}
    /\ mainPc = "start"
    /\ mainErr = FALSE
    /\ walkTodo = <<>>
    /\ sweepCur = "-"
    /\ loopPc = "notStarted"
    /\ loopCur = "-"
    /\ events = <<>>
    /\ eventOps = <<>>
    /\ ignored = 0
    /\ late = {}
    /\ service = NoService
    /\ apiLog = NoApiLog
    /\ errs = 0
    /\ subscribed = FALSE
    /\ closed = FALSE
    /\ lastLog = "-"
    /\ restarts = 0
    /\ tagIDs = ResolveTags(WatchTagNames, TagMap(WatchCatalog))
    /\ runPc = "watch"
    /\ runErr = "-"
    /\ argv = {}
    /\ flagWatch = TRUE
    /\ flagFile = ""
    /\ flagCreate = FALSE
    /\ flagForce = FALSE
    /\ configYaml = "valid"
    /\ cfgTags = WatchTagNames
    /\ allTags = <<>>
    /\ warned = WarnedTags(WatchTagNames, TagMap(WatchCatalog))
    /\ NoClientCall
    /\ NoConfigCall
    /\ initFiles = files
    /\ created = 0
    /\ errsLogged = 0
    /\ sweepAttempted = {}
    /\ owed = {}
    /\ okPending = [fl \in Flows |-> FALSE]
    /\ dispBy = [p \in Paths |-> {}]
    /\ sentTags = {}

(***************************************************************************)
(* Helpers                                                                 *)
(***************************************************************************)

(* The names filepath.Walk reads from a directory, in lexical order:       *)
(* readDirNames sorts them.  "w/sub" is the subdirectory.                  *)
RootOrder == <<"w/a", "w/sub", "w/z">>
SubOrder == <<"w/sub/a">>
Exists(e) == IF e = SubDirPath THEN subDir # "none" ELSE e \in files
Listing(order) == SelectSeq(order, Exists)

(* client.UploadDocument(path, tagIDs) returns nil: the file can be opened *)
(* and the service answers 200.  It changes no file.                       *)
UploadDocument(p, serverOk) == p \in files /\ serverOk

(* Faulty variant: the watcher reports creations in subdirectories too.    *)
Recursive_Watched(p) == subscribed /\ ~closed
(* The fsnotify watcher reports a creation only for an entry directly in   *)
(* the folder given to watcher.Add, once Add has returned, until it closes.*)
Watched(p) == subscribed /\ ~closed /\ p \in TopLevel

(* The sweep is running: filepath.Walk has been entered and has not        *)
(* returned.                                                               *)
SweepPcs == {"walking", "sweepUpload", "sweepPost"}

(* filepath.Walk has read the names of the subdirectory, or has ended      *)
(* without: what is created in it from now on the walk does not see.       *)
SweepPassedSub == mainPc \in (SweepPcs \cup {"waitDone"}) /\ SubDirPath \notin {walkTodo[i] : i \in 1..Len(walkTodo)}

(* Faulty variant: the sweep is started before watcher.Add.                *)
SweepFirst_AfterStartLoop == "walk"
(* Position of watchDirectory after the go statement: watcher.Add.         *)
AfterStartLoop == "add"

(* Faulty variant: the error of watcher.Add is ignored.                    *)
IgnoreErr_AfterAdd(ok) == "walk"
(* Position of watchDirectory after watcher.Add: the error is returned.    *)
AfterAdd(ok) == IF ok THEN "walk" ELSE "returned"

(* Faulty variants: handlePostUpload whatever the result, and never.       *)
Always_SweepAfterUpload(ok) == "sweepPost"
Never_SweepAfterUpload(ok) == "walking"
(* What the walk function does with the result of UploadDocument: on an    *)
(* error it logs and returns nil, on success it calls handlePostUpload.    *)
SweepAfterUpload(ok) == IF ok THEN "sweepPost" ELSE "walking"

(* Faulty variant: a failed upload is tried again after the delay.         *)
Retry_LoopAfterUpload(ok) == IF ok THEN "post" ELSE "settle"
(* What the event loop does with the result of UploadDocument: on an error *)
(* it logs and waits again, on success it calls handlePostUpload.          *)
LoopAfterUpload(ok) == IF ok THEN "post" ELSE "wait"

(* Faulty variant: a watcher error ends the goroutine.                     *)
Exit_LoopAfterError == "exited"
(* What the event loop does with a value received from watcher.Errors: it  *)
(* logs it and waits again.                                                *)
LoopAfterError == "wait"

(* What the walk function returns for an entry filepath.Walk reports with  *)
(* an error: the error, which ends the walk.                               *)
WalkFnReturnsErr == TRUE

(* What handlePostUpload logs when os.Remove, os.Rename or os.MkdirAll     *)
(* fails.                                                                  *)
FailureLogs == {"delete failed", "move failed", "mkdir failed"}

(* Faulty variant: a failed disposition ends the sweep.                    *)
Abort_SweepAfterPost(log) == IF log \in FailureLogs THEN "waitDone" ELSE "walking"
(* handlePostUpload returns nothing: whatever it logged, the walk function *)
(* returns nil and the walk goes on, and the event loop waits again.       *)
SweepAfterPost(log) == "walking"
LoopAfterPost(log) == "wait"

(* Faulty variant: the destination keeps the directories of the source.    *)
FullPath_SameNewPath(q, p) == q = p
(* Two sources have the same newPath: filepath.Join(cfg.ProcessedFolder,   *)
(* filepath.Base(filePath)).                                               *)
SameNewPath(q, p) == Base(q) = Base(p)

(* Faulty variant: an action that is not known is taken for "delete".      *)
DeleteByDefault_handlePostUpload(p, mkOk, opOk) ==
    /\ UNCHANGED <<watchDir, subDir, processedDir, processed>>
    /\ IF cfgAction # "move" /\ p \in files /\ opOk
       THEN files' = files \ {p} /\ lastLog' = "deleted"
       ELSE files' = files /\ lastLog' = "delete failed"
(* Faulty variant: "move" copies the file and leaves the source, keeping   *)
(* what the processed folder held.                                         *)
Copy_handlePostUpload(p, mkOk, opOk) ==
    /\ UNCHANGED <<watchDir, subDir>>
    /\ IF cfgAction = "move"
       THEN /\ processedDir' = TRUE
            /\ files' = files
            /\ processed' = processed \cup {p}
            /\ lastLog' = "moved"
       ELSE /\ UNCHANGED <<files, processedDir, processed>>
            /\ lastLog' = "none"
(* Faulty variant: no return after a failed os.MkdirAll, the rename is     *)
(* attempted all the same (and fails, the folder not being there).         *)
NoReturn_handlePostUpload(p, mkOk, opOk) ==
    /\ UNCHANGED <<watchDir, subDir>>
    /\ CASE cfgAction = "delete" ->
              /\ UNCHANGED <<processedDir, processed>>
              /\ IF p \in files /\ opOk
                 THEN files' = files \ {p} /\ lastLog' = "deleted"
                 ELSE files' = files /\ lastLog' = "delete failed"
         [] cfgAction = "move" ->
              /\ processedDir' = (processedDir \/ mkOk)
              /\ IF p \in files /\ opOk /\ processedDir'
                 THEN /\ files' = files \ {p}
                      /\ processed' = {q \in processed : Base(q) # Base(p)} \cup {p}
                      /\ lastLog' = "moved"
                 ELSE /\ UNCHANGED <<files, processed>>
                      /\ lastLog' = "move failed"
         [] OTHER ->
              /\ UNCHANGED <<files, processedDir, processed>>
              /\ lastLog' = "none"
(* handlePostUpload(cfg, filePath).  mkOk: os.MkdirAll of the processed    *)
(* folder succeeds; opOk: os.Remove / os.Rename is not refused by the      *)
(* system (it fails anyway when filePath does not exist).  os.Rename       *)
(* replaces a file of the same name in the processed folder.               *)
handlePostUpload(p, mkOk, opOk) ==
    /\ UNCHANGED <<watchDir, subDir>>
    /\ CASE cfgAction = "delete" ->
              /\ UNCHANGED <<processedDir, processed>>
              /\ IF p \in files /\ opOk
                 THEN files' = files \ {p} /\ lastLog' = "deleted"
                 ELSE files' = files /\ lastLog' = "delete failed"
         [] cfgAction = "move" ->
              IF ~processedDir /\ ~mkOk
              THEN /\ UNCHANGED <<files, processedDir, processed>>
                   /\ lastLog' = "mkdir failed"
              ELSE /\ processedDir' = TRUE
                   /\ IF p \in files /\ opOk
                      THEN /\ files' = files \ {p}
                           /\ processed' = {q \in processed : ~SameNewPath(q, p)} \cup {p}
                           /\ lastLog' = "moved"
                      ELSE /\ UNCHANGED <<files, processed>>
                           /\ lastLog' = "move failed"
         [] OTHER ->
              /\ UNCHANGED <<files, processedDir, processed>>
              /\ lastLog' = "none"

(* Faulty variant: the event loop uploads without tags.                    *)
NoTags_LoopTags == <<>>
(* The tag ids the flows pass to client.UploadDocument: the tagIDs         *)
(* parameter of watchDirectory, which nothing assigns to.                  *)
LoopTags == tagIDs
SweepTags == tagIDs

(* A call of UploadDocument on p by a flow, in the history.                *)
NoteAttempt(fl, p, ok) ==
    /\ sentTags' = sentTags \cup {IF fl = "sweep" THEN SweepTags ELSE LoopTags}
    /\ sweepAttempted' = IF fl = "sweep" THEN sweepAttempted \cup {p} ELSE sweepAttempted
    /\ owed' = owed \ {p}
    /\ okPending' = [okPending EXCEPT ![fl] = ok]
    /\ UNCHANGED <<initFiles, created, errsLogged, dispBy>>

(* A call of handlePostUpload on p by a flow, in the history.              *)
NoteDisposition(fl, p) ==
    /\ okPending' = [okPending EXCEPT ![fl] = FALSE]
    /\ dispBy' = [dispBy EXCEPT ![p] = @ \cup {fl}]
    /\ UNCHANGED <<initFiles, created, errsLogged, sweepAttempted, owed, sentTags>>

(***************************************************************************)
(* watchDirectory: the main flow                                           *)
(***************************************************************************)

(* os.Stat(cfg.WatchFolder); os.MkdirAll when it does not exist. *)
EnsureWatchFolder ==
    /\ mainPc = "start"
    /\ \E ok \in BOOLEAN :
         IF watchDir \/ ok
         THEN /\ watchDir' = TRUE
              /\ mainPc' = "newWatcher"
              /\ mainErr' = FALSE
         ELSE /\ watchDir' = watchDir
              /\ mainPc' = "returned"
              /\ mainErr' = TRUE
    /\ UNCHANGED <<cfgAction, runVars, subDir, files, processedDir, processed, walkTodo, sweepCur,
                   loopVars, watcherVars, lastLog, histVars>>

(* fsnotify.NewWatcher(); on success the deferred watcher.Close() is set. *)
NewWatcher ==
    /\ mainPc = "newWatcher"
    /\ \E ok \in BOOLEAN :
         /\ mainPc' = IF ok THEN "go" ELSE "returned"
         /\ mainErr' = ~ok
    /\ UNCHANGED <<cfgAction, runVars, fsVars, walkTodo, sweepCur, loopVars, watcherVars, lastLog, histVars>>

(* go func() { for { select ... } }() *)
StartEventLoop ==
    /\ mainPc = "go"
    /\ mainPc' = AfterStartLoop
    /\ loopPc' = "wait"
    /\ UNCHANGED <<cfgAction, runVars, fsVars, mainErr, walkTodo, sweepCur, loopCur, watcherVars,
                   lastLog, histVars>>

(* watcher.Add(cfg.WatchFolder); on an error watchDirectory returns it and *)
(* the deferred watcher.Close() closes the channels.                       *)
WatcherAdd ==
    /\ mainPc = "add"
    /\ \E ok \in BOOLEAN :
         /\ mainPc' = AfterAdd(ok)
         /\ subscribed' = ok
         /\ IF mainPc' = "returned"
            THEN mainErr' = TRUE /\ closed' = TRUE /\ events' = <<>> /\ eventOps' = <<>>
            ELSE UNCHANGED <<mainErr, closed, events, eventOps>>
    /\ UNCHANGED <<cfgAction, runVars, fsVars, walkTodo, sweepCur, loopVars, errs, lastLog, histVars>>

(* filepath.Walk(cfg.WatchFolder, fn): Lstat of the root, the names of the *)
(* root directory are read, fn(root) returns nil for the directory.        *)
WalkRoot ==
    /\ mainPc = "walk"
    /\ mainPc' = "walking"
    /\ walkTodo' = Listing(RootOrder)
    /\ UNCHANGED <<cfgAction, runVars, fsVars, mainErr, sweepCur, loopVars, watcherVars, lastLog, histVars>>

(* The walk reaches its next entry.  A directory: its names are read and   *)
(* walked before the rest.  A file: Lstat, then fn uploads it.  An entry   *)
(* whose Lstat or directory read fails is given to fn with the error; fn   *)
(* returns it and Walk stops, leaving the rest of walkTodo unvisited.      *)
WalkEntry ==
    /\ mainPc = "walking"
    /\ walkTodo # <<>>
    /\ LET e == Head(walkTodo)
           failed == IF e = SubDirPath THEN subDir # "ok" ELSE e \notin files
       IN  IF failed
           THEN /\ walkTodo' = Tail(walkTodo)
                /\ mainPc' = IF WalkFnReturnsErr THEN "waitDone" ELSE "walking"
                /\ sweepCur' = sweepCur
           ELSE IF e = SubDirPath
           THEN /\ walkTodo' = Listing(SubOrder) \o Tail(walkTodo)
                /\ mainPc' = "walking"
                /\ sweepCur' = sweepCur
           ELSE /\ walkTodo' = Tail(walkTodo)
                /\ mainPc' = "sweepUpload"
                /\ sweepCur' = e
    /\ UNCHANGED <<cfgAction, runVars, fsVars, mainErr, loopVars, watcherVars, lastLog, histVars>>

(* fn: client.UploadDocument(path, tagIDs) and the branch on its result. *)
SweepUpload ==
    /\ mainPc = "sweepUpload"
    /\ \E serverOk \in BOOLEAN :
         LET ok == UploadDocument(sweepCur, serverOk)
         IN  /\ mainPc' = SweepAfterUpload(ok)
             /\ NoteAttempt("sweep", sweepCur, ok)
    /\ UNCHANGED <<cfgAction, runVars, fsVars, mainErr, walkTodo, sweepCur, loopVars, watcherVars, lastLog>>

(* fn: handlePostUpload(cfg, path), then return nil. *)
SweepPost ==
    /\ mainPc = "sweepPost"
    /\ \E mkOk \in BOOLEAN, opOk \in BOOLEAN : handlePostUpload(sweepCur, mkOk, opOk)
    /\ mainPc' = SweepAfterPost(lastLog')
    /\ NoteDisposition("sweep", sweepCur)
    /\ UNCHANGED <<cfgAction, runVars, mainErr, walkTodo, sweepCur, loopVars, watcherVars>>

(* filepath.Walk returns; watchDirectory blocks on <-done, a channel that  *)
(* nothing sends on or closes.                                             *)
WalkEnd ==
    /\ mainPc = "walking"
    /\ walkTodo = <<>>
    /\ mainPc' = "waitDone"
    /\ UNCHANGED <<cfgAction, runVars, fsVars, mainErr, walkTodo, sweepCur, loopVars, watcherVars,
                   lastLog, histVars>>

(***************************************************************************)
(* The event-loop goroutine                                                *)
(***************************************************************************)

(* Faulty variant: every event is taken for a creation.                    *)
AnyOp_IsCreate(op) == TRUE
(* event.Op&fsnotify.Create == fsnotify.Create                             *)
IsCreate(op) == "Create" \in op

(* Faulty variant: the receive takes the event delivered last.             *)
Newest_NextEvent(q) == q[Len(q)]
(* A receive from watcher.Events takes the event delivered first.          *)
NextEvent(q) == Head(q)

(* case event, ok := <-watcher.Events with ok and a Create event. *)
LoopRecvEvent ==
    /\ loopPc = "wait"
    /\ events # <<>>
    /\ events' = Tail(events)
    /\ eventOps' = Tail(eventOps)
    /\ IF IsCreate(NextEvent(eventOps))
       THEN loopCur' = NextEvent(events) /\ loopPc' = "settle" /\ ignored' = ignored
       ELSE ignored' = ignored + 1 /\ UNCHANGED loopVars
    /\ UNCHANGED <<cfgAction, restarts, tagIDs, appVars, clientVars, conf, late, service, apiLog, fsVars, mainVars, errs, subscribed, closed, lastLog, histVars>>

(* time.Sleep(1 * time.Second) *)
LoopSettle ==
    /\ loopPc = "settle"
    /\ loopPc' = "upload"
    /\ UNCHANGED <<cfgAction, runVars, fsVars, mainVars, loopCur, watcherVars, lastLog, histVars>>

(* client.UploadDocument(event.Name, tagIDs) and the branch on its result. *)
LoopUpload ==
    /\ loopPc = "upload"
    /\ \E serverOk \in BOOLEAN :
         LET ok == UploadDocument(loopCur, serverOk)
         IN  /\ loopPc' = LoopAfterUpload(ok)
             /\ NoteAttempt("loop", loopCur, ok)
    /\ UNCHANGED <<cfgAction, runVars, fsVars, mainVars, loopCur, watcherVars, lastLog>>

(* handlePostUpload(cfg, event.Name), then back to the select. *)
LoopPost ==
    /\ loopPc = "post"
    /\ \E mkOk \in BOOLEAN, opOk \in BOOLEAN : handlePostUpload(loopCur, mkOk, opOk)
    /\ loopPc' = LoopAfterPost(lastLog')
    /\ NoteDisposition("loop", loopCur)
    /\ UNCHANGED <<cfgAction, runVars, mainVars, loopCur, watcherVars>>

(* case err, ok := <-watcher.Errors with ok: log.Println. *)
LoopRecvError ==
    /\ loopPc = "wait"
    /\ errs > 0
    /\ errs' = errs - 1
    /\ errsLogged' = errsLogged + 1
    /\ loopPc' = LoopAfterError
    /\ UNCHANGED <<cfgAction, runVars, fsVars, mainVars, loopCur, events, eventOps, subscribed, closed, lastLog,
                   initFiles, created, sweepAttempted, owed, okPending, dispBy, sentTags>>

(* A receive from a closed channel, !ok: the goroutine returns. *)
LoopChannelClosed ==
    /\ loopPc = "wait"
    /\ closed
    /\ loopPc' = "exited"
    /\ UNCHANGED <<cfgAction, runVars, fsVars, mainVars, loopCur, watcherVars, lastLog, histVars>>

(***************************************************************************)
(* The environment                                                         *)
(***************************************************************************)

(* Somebody creates a file under the watch folder. *)
CreateFile(p) ==
    /\ created < MaxCreates
    /\ watchDir
    /\ p \notin files
    /\ p \in InSub => subDir # "none"
    /\ files' = files \cup {p}
    /\ created' = created + 1
    /\ events' = IF Watched(p) THEN Append(events, p) ELSE events
    /\ eventOps' = IF Watched(p) THEN Append(eventOps, {"Create"}) ELSE eventOps
    /\ owed' = IF p \in TopLevel /\ mainPc \in SweepPcs THEN owed \cup {p} ELSE owed
    /\ late' = IF p \in InSub /\ SweepPassedSub THEN late \cup {<<p, restarts>>} ELSE late
    /\ UNCHANGED <<cfgAction, restarts, tagIDs, appVars, clientVars, conf, ignored, service, apiLog, watchDir, subDir, processedDir, processed, mainVars, loopVars,
                   errs, subscribed, closed, lastLog,
                   initFiles, errsLogged, sweepAttempted, okPending, dispBy, sentTags>>

(* The watcher reports an error on watcher.Errors. *)
WatcherError ==
    /\ subscribed /\ ~closed
    /\ errs + errsLogged < MaxErrors
    /\ errs' = errs + 1
    /\ UNCHANGED <<cfgAction, runVars, fsVars, mainVars, loopVars, events, eventOps, subscribed, closed, lastLog,
                   histVars>>

(* The watch subsystem stops and closes watcher.Events and watcher.Errors; *)
(* what it had not delivered is lost.                                      *)
WatcherCloses ==
    /\ subscribed /\ ~closed
    /\ closed' = TRUE
    /\ events' = <<>>
    /\ eventOps' = <<>>
    /\ errs' = 0
    /\ UNCHANGED <<cfgAction, runVars, fsVars, mainVars, loopVars, subscribed, lastLog, histVars>>

MainStep == EnsureWatchFolder \/ NewWatcher \/ StartEventLoop \/ WatcherAdd \/ WalkRoot
            \/ WalkEntry \/ SweepUpload \/ SweepPost \/ WalkEnd
LoopStep == LoopRecvEvent \/ LoopSettle \/ LoopUpload \/ LoopPost \/ LoopRecvError
            \/ LoopChannelClosed
EnvStep == (\E p \in Paths : CreateFile(p)) \/ WatcherError \/ WatcherCloses

Next == MainStep \/ LoopStep \/ EnvStep

Spec == Init /\ [][Next]_vars

(* The Go scheduler runs both goroutines: a flow that can step does.  The  *)
(* environment is under no obligation.                                     *)
FairSpec == Spec /\ WF_vars(MainStep) /\ WF_vars(LoopStep)

(***************************************************************************)
(* Stopping the process and starting it again                              *)
(***************************************************************************)

(* The process stops, wherever its flows are, and is started again with    *)
(* the same configuration: nothing of the run is kept but the file system. *)
(* The watcher of the stopped process and what it had queued are gone.     *)
Restart ==
    /\ restarts < MaxRestarts
    /\ mainPc # "start"
    /\ restarts' = restarts + 1
    /\ mainPc' = "start"
    /\ mainErr' = FALSE
    /\ walkTodo' = <<>>
    /\ sweepCur' = "-"
    /\ loopPc' = "notStarted"
    /\ loopCur' = "-"
    /\ events' = <<>>
    /\ eventOps' = <<>>
    /\ errs' = 0
    /\ subscribed' = FALSE
    /\ closed' = FALSE
    /\ lastLog' = "-"
    /\ initFiles' = files
    /\ sweepAttempted' = {}
    /\ owed' = {}
    /\ okPending' = [fl \in Flows |-> FALSE]
    /\ dispBy' = [p \in Paths |-> {}]
    /\ sentTags' = {}
    /\ UNCHANGED <<cfgAction, tagIDs, appVars, clientVars, otherVars, fsVars, created, errsLogged>>

RestartNext == Next \/ Restart

RestartSpec == Init /\ [][RestartNext]_vars

(***************************************************************************)
(* runApp                                                                  *)
(***************************************************************************)

(* What the runs of runApp are given: the catalogs the service may hold    *)
(* and the tag names that may be configured.                               *)
Catalogs == {<<>>,
             <<[Name |-> "invoices", ID |-> 1]>>,
             <<[Name |-> "invoices", ID |-> 1], [Name |-> "receipts", ID |-> 2]>>}
(* The command lines looked at.  -force is given with -create-config only. *)
ArgSets == {{}, {"-file=w/a"}, {"-watch=false"}, {"-watch=false", "-file=w/a"},
            {"-create-config"}, {"-create-config", "-force"},
            {"-create-config", "-watch=false", "-file=w/a"}}
TagLists == {<<>>, <<"invoices", "missing">>, <<"receipts", "invoices">>}

(* The state when runApp is entered: the command line, the flags at their  *)
(* defaults, the configuration that config.Load will produce, and a watch  *)
(* folder that is missing or holds one file.  The runs without a           *)
(* config.yaml are those that do not watch.                                *)
RunInit ==
    /\ cfgAction \in Actions
    /\ watchDir \in BOOLEAN
    /\ subDir = "none"
    /\ files = (IF watchDir THEN {"w/a"} ELSE {})
    /\ processedDir = FALSE
    /\ processed = {}
    /\ mainPc = "notCalled"
    /\ mainErr = FALSE
    /\ walkTodo = <<>>
    /\ sweepCur = "-"
    /\ loopPc = "notStarted"
    /\ loopCur = "-"
    /\ events = <<>>
    /\ eventOps = <<>>
    /\ ignored = 0
    /\ late = {}
    /\ service = NoService
    /\ apiLog = NoApiLog
    /\ errs = 0
    /\ subscribed = FALSE
    /\ closed = FALSE
    /\ lastLog = "-"
    /\ restarts = 0
    /\ tagIDs = <<>>
    /\ runPc = "parse"
    /\ runErr = "-"
    /\ argv \in ArgSets
    /\ flagWatch = TRUE
    /\ flagFile = ""
    /\ flagCreate = FALSE
    /\ flagForce = FALSE
    /\ configYaml \in (IF argv \cap {"-watch=false", "-create-config"} = {}
                          THEN {"valid", "malformed"}
                          ELSE {"absent", "valid", "malformed"})
    /\ cfgTags \in TagLists
    /\ allTags = <<>>
    /\ warned = {}
    /\ NoClientCall
    /\ NoConfigCall
    /\ initFiles = files
    /\ created = 0
    /\ errsLogged = 0
    /\ sweepAttempted = {}
    /\ owed = {}
    /\ okPending = [fl \in Flows |-> FALSE]
    /\ dispBy = [p \in Paths |-> {}]
    /\ sentTags = {}

(* What runApp leaves alone: the pipeline, which has not started or has    *)
(* returned, and the files.                                                *)
pipeVars == <<cfgAction, restarts, fsVars, mainVars, loopVars, watcherVars, lastLog,
              initFiles, created, errsLogged, sweepAttempted, owed, okPending, dispBy,
              clientVars, otherVars>>
flagVars == <<argv, flagWatch, flagFile, flagCreate, flagForce, cfgTags>>

(* flag.Parse(): a flag that is not given keeps its default.               *)
ParseFlags ==
    /\ runPc = "parse"
    /\ runPc' = "start"
    /\ flagWatch' = (IF "-watch=false" \in argv THEN FALSE ELSE flagWatch)
    /\ flagFile' = (IF "-file=w/a" \in argv THEN "w/a" ELSE flagFile)
    /\ flagCreate' = (IF "-create-config" \in argv THEN TRUE ELSE flagCreate)
    /\ flagForce' = (IF "-force" \in argv THEN TRUE ELSE flagForce)
    /\ UNCHANGED <<pipeVars, argv, cfgTags, configYaml, runErr, tagIDs, allTags, warned, sentTags>>

(* Faulty variant: a -file that is given takes priority over -watch.       *)
FileFirst_Mode(watch, filePath) ==
    IF filePath # "" THEN "file" ELSE IF watch THEN "watch" ELSE "none"
(* The if, else if, else at the end of runApp.                             *)
Mode(watch, filePath) ==
    IF watch THEN "watch" ELSE IF filePath # "" THEN "file" ELSE "none"

(* Faulty variant: the error of the upload is dropped.                     *)
AlwaysNil_SingleResult(err) == "nil"
(* What runApp returns after the upload of the -file path: the error of    *)
(* UploadDocument, wrapped, or nil.                                        *)
SingleResult(err) == IF err.isNil THEN "nil" ELSE "failed to upload document"

(* Faulty variant: -force is not looked at.                                *)
NoForce_ConfigRefused(exists, force) == exists
(* The test before the write: os.Stat succeeded and -force is not given.   *)
ConfigRefused(exists, force) == exists /\ ~force

(* if the -create-config flag is set: os.Stat, os.WriteFile of the         *)
(* example (a failed write leaves the file as it was, or cut short),       *)
(* return.                                                                 *)
CreateConfig ==
    /\ runPc = "start"
    /\ flagCreate
    /\ runPc' = "returned"
    /\ \E writeOk \in BOOLEAN :
         IF ConfigRefused(configYaml # "absent", flagForce)
         THEN runErr' = "config.yaml already exists" /\ configYaml' = configYaml
         ELSE IF ~writeOk
         THEN runErr' = "failed to write config file" /\ configYaml' \in {configYaml, "truncated"}
         ELSE runErr' = "nil" /\ configYaml' = "example"
    /\ UNCHANGED <<pipeVars, flagVars, tagIDs, allTags, warned, sentTags>>

(* config.Load(): a missing config.yaml is not an error, one that cannot   *)
(* be read or decoded is.                                                  *)
LoadConfig ==
    /\ runPc = "start"
    /\ ~flagCreate
    /\ IF configYaml = "malformed"
       THEN runPc' = "returned" /\ runErr' = "failed to load configuration"
       ELSE runPc' = "getTags" /\ runErr' = runErr
    /\ UNCHANGED <<pipeVars, flagVars, configYaml, tagIDs, allTags, warned, sentTags>>

(* client.GetTags(): an error ends runApp, whatever tags are configured.   *)
GetTags ==
    /\ runPc = "getTags"
    /\ \/ /\ runPc' = "returned"
          /\ runErr' = "failed to get tags from Paperless"
          /\ allTags' = allTags
       \/ /\ runPc' = "resolve"
          /\ runErr' = runErr
          /\ allTags' \in Catalogs
    /\ UNCHANGED <<pipeVars, flagVars, configYaml, tagIDs, warned, sentTags>>

(* tagMap and the loop over cfg.Tags, then the log of the configuration.   *)
(* allTags and tagMap are not used after this.                             *)
ResolveTagIDs ==
    /\ runPc = "resolve"
    /\ tagIDs' = ResolveTags(cfgTags, TagMap(allTags))
    /\ warned' = WarnedTags(cfgTags, TagMap(allTags))
    /\ allTags' = <<>>
    /\ runPc' = "mode"
    /\ UNCHANGED <<pipeVars, flagVars, configYaml, runErr, sentTags>>

(* if the -watch flag is set: watchDirectory is called.                    *)
CallWatchDirectory ==
    /\ runPc = "mode"
    /\ Mode(flagWatch, flagFile) = "watch"
    /\ runPc' = "watch"
    /\ mainPc' = "start"
    /\ initFiles' = files
    /\ UNCHANGED <<cfgAction, restarts, fsVars, mainErr, walkTodo, sweepCur, loopVars,
                   watcherVars, lastLog, created, errsLogged, sweepAttempted, owed, okPending,
                   dispBy, flagVars, configYaml, runErr, tagIDs, allTags, warned, sentTags,
                   clientVars, otherVars>>

(* watchDirectory has returned: runApp returns what it returned.           *)
WatchDirectoryReturns ==
    /\ runPc = "watch"
    /\ mainPc = "returned"
    /\ runPc' = "returned"
    /\ runErr' = IF mainErr THEN "watchDirectory error" ELSE "nil"
    /\ UNCHANGED <<pipeVars, flagVars, configYaml, tagIDs, allTags, warned, sentTags>>

(* else if the -file flag is not empty: one client.UploadDocument of that  *)
(* path with tagIDs; its error, wrapped, is what runApp returns.           *)
UploadSingleFile ==
    /\ runPc = "mode"
    /\ Mode(flagWatch, flagFile) = "file"
    /\ \E serverOk \in BOOLEAN :
         /\ clErr' = IF UploadDocument(flagFile, serverOk) THEN NilErr
                                                            ELSE Errorf(<<"upload error">>)
         /\ runErr' = SingleResult(clErr')
    /\ clCaller' = "runApp"
    /\ clPath' = flagFile
    /\ sentTags' = sentTags \cup {tagIDs}
    /\ runPc' = "returned"
    /\ UNCHANGED <<cfgAction, restarts, fsVars, mainVars, loopVars, watcherVars, lastLog,
                   initFiles, created, errsLogged, sweepAttempted, owed, okPending, dispBy,
                   clPc, clOpenOk, clSendOk, clStatus, clBody, clRequests, clNext,
                   flagVars, configYaml, tagIDs, allTags, warned, otherVars>>

(* else: neither mode was asked for.                                       *)
NoModeGiven ==
    /\ runPc = "mode"
    /\ Mode(flagWatch, flagFile) = "none"
    /\ runPc' = "returned"
    /\ runErr' = "either the -file flag or the -watch flag is required"
    /\ UNCHANGED <<pipeVars, flagVars, configYaml, tagIDs, allTags, warned, sentTags>>

RunStep == ParseFlags \/ CreateConfig \/ LoadConfig \/ GetTags \/ ResolveTagIDs \/ CallWatchDirectory
           \/ WatchDirectoryReturns \/ UploadSingleFile \/ NoModeGiven

RunNext == RunStep \/ Next

RunSpec == RunInit /\ [][RunNext]_vars

(***************************************************************************)
(* One call of client.UploadDocument and what its caller does next         *)
(***************************************************************************)

(* The answers of the service the call is given: statuses, and bodies      *)
(* (none, "server error", "Bad request body").                             *)
Statuses == {200, 201, 204, 400, 404, 500}
ServerErrorBody == <<"s", "e", "r", "v", "e", "r", " ", "e", "r", "r", "o", "r">>
BadRequestBody == <<"B", "a", "d", " ", "r", "e", "q", "u", "e", "s", "t", " ", "b", "o", "d", "y">>
Bodies == {<<>>, ServerErrorBody, BadRequestBody}

(* The rest of the state while one call of the client is looked at: the    *)
(* pipeline around the call is left out.                                   *)
OutsideCall ==
    /\ cfgAction = "delete"
    /\ watchDir = TRUE
    /\ subDir = "none"
    /\ files = {"w/a"}
    /\ processedDir = FALSE
    /\ processed = {}
    /\ mainPc = "notCalled"
    /\ mainErr = FALSE
    /\ walkTodo = <<>>
    /\ sweepCur = "-"
    /\ loopPc = "notStarted"
    /\ loopCur = "-"
    /\ events = <<>>
    /\ eventOps = <<>>
    /\ ignored = 0
    /\ late = {}
    /\ service = NoService
    /\ apiLog = NoApiLog
    /\ errs = 0
    /\ subscribed = FALSE
    /\ closed = FALSE
    /\ lastLog = "-"
    /\ restarts = 0
    /\ tagIDs = <<>>
    /\ runPc = "watch"
    /\ runErr = "-"
    /\ argv = {}
    /\ flagWatch = TRUE
    /\ flagFile = ""
    /\ flagCreate = FALSE
    /\ flagForce = FALSE
    /\ configYaml = "valid"
    /\ cfgTags = <<>>
    /\ allTags = <<>>
    /\ warned = {}
    /\ initFiles = files
    /\ created = 0
    /\ errsLogged = 0
    /\ sweepAttempted = {}
    /\ owed = {}
    /\ okPending = [fl \in Flows |-> FALSE]
    /\ dispBy = [p \in Paths |-> {}]
    /\ sentTags = {}

(* A call by the sweep or by the event loop is about to be made; the       *)
(* pipeline around it is not looked at.                                    *)
ClientInit ==
    /\ clPc = "open"
    /\ clCaller \in Flows
    /\ clPath \in TopLevel
    /\ clOpenOk \in BOOLEAN
    /\ clSendOk \in BOOLEAN
    /\ clStatus \in Statuses
    /\ clBody \in Bodies
    /\ clRequests = 0
    /\ clErr = NilErr
    /\ clNext = "-"
    /\ NoConfigCall
    /\ OutsideCall

nonClientVars == <<cfgAction, restarts, tagIDs, appVars, fsVars, mainVars, loopVars, watcherVars,
                   lastLog, histVars, otherVars>>

(* os.Open(filePath); on an error UploadDocument returns it, wrapped.      *)
ClientOpen ==
    /\ clPc = "open"
    /\ IF clOpenOk
       THEN clPc' = "send" /\ clErr' = clErr
       ELSE clPc' = "returned" /\ clErr' = OpenError(clPath)
    /\ UNCHANGED <<nonClientVars, clCaller, clPath, clOpenOk, clSendOk, clStatus, clBody, clRequests, clNext>>

(* The multipart body, the request and c.HTTPClient.Do(req); on an error   *)
(* UploadDocument returns it, wrapped.                                     *)
ClientSend ==
    /\ clPc = "send"
    /\ clRequests' = clRequests + 1
    /\ IF clSendOk
       THEN clPc' = "status" /\ clErr' = clErr
       ELSE clPc' = "returned" /\ clErr' = Errorf(<<"failed to send request: ">>)
    /\ UNCHANGED <<nonClientVars, clCaller, clPath, clOpenOk, clSendOk, clStatus, clBody, clNext>>

(* The check of resp.StatusCode and the return.                            *)
ClientCheckStatus ==
    /\ clPc = "status"
    /\ clErr' = IF StatusRefused(clStatus) THEN StatusError(clStatus, clBody) ELSE NilErr
    /\ clPc' = "returned"
    /\ UNCHANGED <<nonClientVars, clCaller, clPath, clOpenOk, clSendOk, clStatus, clBody, clRequests, clNext>>

(* The caller's branch on err != nil.                                      *)
CallerBranch ==
    /\ clPc = "returned"
    /\ clNext' = IF clCaller = "sweep" THEN SweepAfterUpload(clErr.isNil)
                                      ELSE LoopAfterUpload(clErr.isNil)
    /\ clPc' = "branched"
    /\ UNCHANGED <<nonClientVars, clCaller, clPath, clOpenOk, clSendOk, clStatus, clBody, clRequests, clErr>>

ClientNext == ClientOpen \/ ClientSend \/ ClientCheckStatus \/ CallerBranch

ClientSpec == ClientInit /\ [][ClientNext]_vars

(***************************************************************************)
(* One call of client.GetTags                                              *)
(***************************************************************************)

(* The body of a well-formed answer of the tag endpoint for a catalog, as  *)
(* its tokens: {"results": [{"id": 1, "name": "invoices"}, ...]}.          *)
RECURSIVE EncodeEntries(_)
EncodeEntries(tags) ==
    IF tags = <<>> THEN <<>>
    ELSE <<"id", Digit(Head(tags).ID), "name", Head(tags).Name>> \o EncodeEntries(Tail(tags))
EncodeTags(tags) == <<"{", "results", "[">> \o EncodeEntries(tags) \o <<"]", "}">>

(* Bodies that do not decode: "results" is not a list; not JSON.           *)
ResultsNotAList == <<"{", "results", "invalid", "}">>
NotJSON == <<"<html>">>
TagBodies == {EncodeTags(c) : c \in Catalogs} \cup {ResultsNotAList, NotJSON}

(* The statuses the tag endpoint is given to answer with.                  *)
TagStatuses == {200, 400, 401, 404, 500}

(* Decoding of the body into the list of tags.                             *)
Entries(body) == SubSeq(body, 4, Len(body) - 2)
WellFormedTags(body) ==
    /\ Len(body) >= 5
    /\ SubSeq(body, 1, 3) = <<"{", "results", "[">>
    /\ SubSeq(body, Len(body) - 1, Len(body)) = <<"]", "}">>
    /\ Len(Entries(body)) % 4 = 0
    /\ \A k \in 0..((Len(Entries(body)) \div 4) - 1) :
          /\ Entries(body)[4 * k + 1] = "id"
          /\ \E d \in 0..9 : Digit(d) = Entries(body)[4 * k + 2]
          /\ Entries(body)[4 * k + 3] = "name"
DecodeTags(body) ==
    [k \in 1..(Len(Entries(body)) \div 4) |->
        [Name |-> Entries(body)[4 * k],
         ID |-> CHOOSE d \in 0..9 : Digit(d) = Entries(body)[4 * k - 2]]]

(* Faulty variant: the status code is left out of the message.             *)
NoCode_TagsStatusError(status) == Errorf(<<"failed to get tags">>)
(* The error for an answer whose status is not a success status.           *)
TagsStatusError(status) ==
    Errorf(<<"failed to get tags: received status code ">> \o Itoa(status))

(* A call of GetTags is about to be made.                                  *)
TagsInit ==
    /\ clPc = "tagsSend"
    /\ clCaller = "runApp"
    /\ clPath = "-"
    /\ clOpenOk = TRUE
    /\ clSendOk \in BOOLEAN
    /\ clStatus \in TagStatuses
    /\ clBody \in TagBodies
    /\ clRequests = 0
    /\ clErr = NilErr
    /\ clNext = "-"
    /\ NoConfigCall
    /\ OutsideCall

nonTagsVars == <<cfgAction, restarts, tagIDs, runPc, runErr, flagVars, configYaml, warned, fsVars,
                 mainVars, loopVars, watcherVars, lastLog, histVars,
                 clCaller, clPath, clOpenOk, clSendOk, clStatus, clBody, clNext, otherVars>>

(* The authenticated GET of the tag endpoint; an error of the transport is *)
(* returned.                                                               *)
TagsSend ==
    /\ clPc = "tagsSend"
    /\ clRequests' = clRequests + 1
    /\ IF clSendOk
       THEN clPc' = "tagsStatus" /\ clErr' = clErr
       ELSE clPc' = "returned" /\ clErr' = Errorf(<<"failed to send request: ">>)
    /\ UNCHANGED <<nonTagsVars, allTags>>

(* The check of the status of the answer.                                  *)
TagsCheckStatus ==
    /\ clPc = "tagsStatus"
    /\ IF clStatus # StatusOK
       THEN clPc' = "returned" /\ clErr' = TagsStatusError(clStatus)
       ELSE clPc' = "tagsDecode" /\ clErr' = clErr
    /\ UNCHANGED <<nonTagsVars, allTags, clRequests>>

(* The decoding of the body, and the return of the tags.                   *)
TagsDecode ==
    /\ clPc = "tagsDecode"
    /\ clPc' = "returned"
    /\ IF WellFormedTags(clBody)
       THEN allTags' = DecodeTags(clBody) /\ clErr' = NilErr
       ELSE allTags' = allTags /\ clErr' = Errorf(<<"failed to decode tags response: ">>)
    /\ UNCHANGED <<nonTagsVars, clRequests>>

TagsNext == TagsSend \/ TagsCheckStatus \/ TagsDecode

TagsSpec == TagsInit /\ [][TagsNext]_vars

(***************************************************************************)
(* watchDirectory with the events that are no creations                    *)
(***************************************************************************)

(* The operations, other than Create, an event of fsnotify carries.        *)
OtherOps == {{"Write"}, {"Chmod"}, {"Remove"}, {"Rename"}}

(* The events of the queue that are no creations.                          *)
OthersQueued == Cardinality({i \in 1..Len(eventOps) : "Create" \notin eventOps[i]})

(* The watcher delivers an event that is no creation: somebody writes to a *)
(* file of the watch folder or changes its mode, or the file is gone,      *)
(* removed or moved away by the disposition.                               *)
OtherEvent(p, op) ==
    /\ Watched(p)
    /\ ignored + OthersQueued < MaxOthers
    /\ \/ op \in {{"Write"}, {"Chmod"}} /\ p \in files
       \/ /\ p \notin files /\ dispBy[p] # {}
          /\ op = (IF cfgAction = "move" THEN {"Rename"} ELSE {"Remove"})
    /\ events' = Append(events, p)
    /\ eventOps' = Append(eventOps, op)
    /\ UNCHANGED <<cfgAction, runVars, fsVars, mainVars, loopVars, errs, subscribed, closed, lastLog,
                   histVars>>

EventNext == Next \/ (\E p \in TopLevel, op \in OtherOps : OtherEvent(p, op))

(* The starts looked at: a watch folder without a subdirectory, which no   *)
(* event is about.                                                         *)
EventInit == Init /\ subDir = "none"

EventSpec == EventInit /\ [][EventNext]_vars

(***************************************************************************)
(* One call of handlePostUpload, under any cfg.PostUploadAction            *)
(***************************************************************************)

(* Values of post_upload_action: the three of the pipeline, a misspelling  *)
(* and a word that is no action.  config.Load accepts every string.        *)
PostActions == Actions \cup {"Move", "archive"}

(* A flow has uploaded a file and is about to call handlePostUpload; the   *)
(* file may be gone by now.                                                *)
PostInit ==
    /\ cfgAction \in PostActions
    /\ watchDir = TRUE
    /\ subDir = "ok"
    /\ files \in SUBSET Paths
    /\ processedDir \in BOOLEAN
    /\ processed = {}
    /\ \E fl \in Flows, p \in Paths :
         /\ (fl = "loop") => (p \in TopLevel)
         /\ mainPc = (IF fl = "sweep" THEN "sweepPost" ELSE "waitDone")
         /\ sweepCur = (IF fl = "sweep" THEN p ELSE "-")
         /\ loopPc = (IF fl = "loop" THEN "post" ELSE "wait")
         /\ loopCur = (IF fl = "loop" THEN p ELSE "-")
         /\ okPending = [f \in Flows |-> f = fl]
    /\ mainErr = FALSE
    /\ walkTodo = <<>>
    /\ events = <<>>
    /\ eventOps = <<>>
    /\ ignored = 0
    /\ late = {}
    /\ service = NoService
    /\ apiLog = NoApiLog
    /\ errs = 0
    /\ subscribed = TRUE
    /\ closed = FALSE
    /\ lastLog = "-"
    /\ restarts = 0
    /\ tagIDs = <<>>
    /\ runPc = "watch"
    /\ runErr = "-"
    /\ argv = {}
    /\ flagWatch = TRUE
    /\ flagFile = ""
    /\ flagCreate = FALSE
    /\ flagForce = FALSE
    /\ configYaml = "valid"
    /\ cfgTags = <<>>
    /\ allTags = <<>>
    /\ warned = {}
    /\ NoClientCall
    /\ NoConfigCall
    /\ initFiles = files
    /\ created = 0
    /\ errsLogged = 0
    /\ sweepAttempted = {}
    /\ owed = {}
    /\ dispBy = [p \in Paths |-> {}]
    /\ sentTags = {<<>>}

PostNext == SweepPost \/ LoopPost

PostSpec == PostInit /\ [][PostNext]_vars

(***************************************************************************)
(* The Windows service: paperlessUploaderService.Execute                   *)
(***************************************************************************)

(* The control requests: the two Execute accepts, the interrogation, and   *)
(* one it does not expect.                                                 *)
Cmds == {"Interrogate", "Stop", "Shutdown", "Pause"}

(* Faulty variant: every request but the interrogation stops the service.  *)
StopOnAny_Handling(cmd) == IF cmd = "Interrogate" THEN "report" ELSE "stop"
(* switch c.Cmd                                                            *)
Handling(cmd) ==
    IF cmd = "Interrogate" THEN "report"
    ELSE IF cmd \in {"Stop", "Shutdown"} THEN "stop"
    ELSE "unexpected"

(* Execute is entered; runApp has not been called.  The service is started *)
(* without arguments.                                                      *)
ServiceInit ==
    /\ cfgAction = "delete"
    /\ watchDir \in BOOLEAN
    /\ subDir = "none"
    /\ files = (IF watchDir THEN {"w/a"} ELSE {})
    /\ processedDir = FALSE
    /\ processed = {}
    /\ mainPc = "notCalled"
    /\ mainErr = FALSE
    /\ walkTodo = <<>>
    /\ sweepCur = "-"
    /\ loopPc = "notStarted"
    /\ loopCur = "-"
    /\ events = <<>>
    /\ eventOps = <<>>
    /\ ignored = 0
    /\ late = {}
    /\ service = [pc |-> "entered", changes |-> <<>>, r |-> <<>>, asked |-> 0]
    /\ apiLog = NoApiLog
    /\ errs = 0
    /\ subscribed = FALSE
    /\ closed = FALSE
    /\ lastLog = "-"
    /\ restarts = 0
    /\ tagIDs = <<>>
    /\ runPc = "notCalled"
    /\ runErr = "-"
    /\ argv = {}
    /\ flagWatch = TRUE
    /\ flagFile = ""
    /\ flagCreate = FALSE
    /\ flagForce = FALSE
    /\ configYaml \in {"valid", "malformed"}
    /\ cfgTags = WatchTagNames
    /\ allTags = <<>>
    /\ warned = {}
    /\ NoClientCall
    /\ NoConfigCall
    /\ initFiles = files
    /\ created = 0
    /\ errsLogged = 0
    /\ sweepAttempted = {}
    /\ owed = {}
    /\ okPending = [fl \in Flows |-> FALSE]
    /\ dispBy = [p \in Paths |-> {}]
    /\ sentTags = {}

nonServiceVars == <<cfgAction, restarts, tagIDs, clientVars, conf, ignored, late, apiLog, fsVars,
                    mainVars, loopVars, watcherVars, lastLog, histVars>>

(* changes <- svc.Status{State: svc.StartPending}                          *)
ReportStartPending ==
    /\ service.pc = "entered"
    /\ service' = [service EXCEPT !.pc = "starting", !.changes = Append(@, "StartPending")]
    /\ UNCHANGED <<nonServiceVars, appVars>>

(* changes <- svc.Status{State: svc.Running, Accepts: cmdsAccepted}        *)
ReportRunning ==
    /\ service.pc = "starting"
    /\ service' = [service EXCEPT !.pc = "spawn", !.changes = Append(@, "Running")]
    /\ UNCHANGED <<nonServiceVars, appVars>>

(* go func() { runApp() }(): the goroutine is started, Execute goes on to  *)
(* its loop.                                                               *)
SpawnRunApp ==
    /\ service.pc = "spawn"
    /\ service' = [service EXCEPT !.pc = "loop"]
    /\ runPc' = "parse"
    /\ UNCHANGED <<nonServiceVars, runErr, flagVars, configYaml, allTags, warned>>

(* case c := <-r and the switch on c.Cmd.  The request is handed over with *)
(* the status reported last as its CurrentStatus.                          *)
HandleRequest ==
    /\ service.pc = "loop"
    /\ service.r # <<>>
    /\ LET c == [Cmd |-> Head(service.r), CurrentStatus |-> service.changes[Len(service.changes)]]
       IN  service' =
             IF Handling(c.Cmd) = "report"
             THEN [service EXCEPT !.r = Tail(@), !.changes = Append(@, c.CurrentStatus)]
             ELSE IF Handling(c.Cmd) = "stop"
             THEN [service EXCEPT !.r = Tail(@), !.changes = Append(@, "StopPending"),
                                  !.pc = "returned"]
             ELSE [service EXCEPT !.r = Tail(@)]
    /\ UNCHANGED <<nonServiceVars, appVars>>

(* The service control manager sends a request.                            *)
ControlRequest(cmd) ==
    /\ service.pc \in {"entered", "starting", "spawn", "loop"}
    /\ service.asked < MaxRequests
    /\ service' = [service EXCEPT !.asked = @ + 1, !.r = Append(@, cmd)]
    /\ UNCHANGED <<nonServiceVars, appVars>>

(* The goroutine: runApp up to the point where watchDirectory has          *)
(* subscribed, or has failed.                                              *)
AppStep == ParseFlags \/ LoadConfig \/ GetTags \/ ResolveTagIDs \/ CallWatchDirectory
           \/ EnsureWatchFolder \/ NewWatcher \/ StartEventLoop \/ WatcherAdd
           \/ WatchDirectoryReturns

ServiceNext == ReportStartPending \/ ReportRunning \/ SpawnRunApp \/ HandleRequest
               \/ (\E cmd \in Cmds : ControlRequest(cmd)) \/ AppStep

ServiceSpec == ServiceInit /\ [][ServiceNext]_vars

(***************************************************************************)
(* runApp: the API key in the log of the configuration                     *)
(***************************************************************************)

(* The bytes an API key is made of here: a letter and the dot.             *)
KeyBytes == {"a", "."}
RECURSIVE KeysOfLen(_)
KeysOfLen(n) == IF n = 0 THEN {<<>>} ELSE {Append(k, b) : k \in KeysOfLen(n - 1), b \in KeyBytes}
ApiKeys == UNION {KeysOfLen(n) : n \in 0..MaxKeyLen}

(* "(too short to be valid)"                                               *)
TooShort == <<"(", "t", "o", "o", " ", "s", "h", "o", "r", "t", " ", "t", "o", " ", "b", "e", " ",
              "v", "a", "l", "i", "d", ")">>

(* Faulty variant: the key is logged as it is.                             *)
Whole_ApiKeyForLogging(key) == key
(* apiKeyForLogging: "..." and cfg.APIKey[len(cfg.APIKey)-4:] when         *)
(* len(cfg.APIKey) > 4, the fixed text otherwise.                          *)
ApiKeyForLogging(key) ==
    IF Len(key) > 4 THEN <<".", ".", ".">> \o SubSeq(key, Len(key) - 3, Len(key))
    ELSE TooShort

(* runApp is about to log the configuration it loaded.                     *)
ApiLogInit ==
    /\ \E key \in ApiKeys : apiLog = [pc |-> "log", key |-> key, shown |-> <<>>]
    /\ conf = [pc |-> "idle", env |-> {}, file |-> "absent", keys |-> {}, cfg |-> NoConfig,
               err |-> FALSE]
    /\ service = NoService
    /\ ignored = 0
    /\ late = {}
    /\ cfgAction = "delete"
    /\ watchDir = TRUE
    /\ subDir = "none"
    /\ files = {"w/a"}
    /\ processedDir = FALSE
    /\ processed = {}
    /\ mainPc = "notCalled"
    /\ mainErr = FALSE
    /\ walkTodo = <<>>
    /\ sweepCur = "-"
    /\ loopPc = "notStarted"
    /\ loopCur = "-"
    /\ events = <<>>
    /\ eventOps = <<>>
    /\ errs = 0
    /\ subscribed = FALSE
    /\ closed = FALSE
    /\ lastLog = "-"
    /\ restarts = 0
    /\ tagIDs = <<>>
    /\ runPc = "resolve"
    /\ runErr = "-"
    /\ argv = {}
    /\ flagWatch = TRUE
    /\ flagFile = ""
    /\ flagCreate = FALSE
    /\ flagForce = FALSE
    /\ configYaml = "valid"
    /\ cfgTags = <<>>
    /\ allTags = <<>>
    /\ warned = {}
    /\ NoClientCall
    /\ initFiles = files
    /\ created = 0
    /\ errsLogged = 0
    /\ sweepAttempted = {}
    /\ owed = {}
    /\ okPending = [fl \in Flows |-> FALSE]
    /\ dispBy = [p \in Paths |-> {}]
    /\ sentTags = {}

(* The if on len(cfg.APIKey) and the log.Printf of the configuration.      *)
LogConfiguration ==
    /\ apiLog.pc = "log"
    /\ apiLog' = [apiLog EXCEPT !.pc = "logged", !.shown = ApiKeyForLogging(apiLog.key)]
    /\ UNCHANGED <<cfgAction, restarts, tagIDs, appVars, clientVars, conf, ignored, late, service,
                   fsVars, mainVars, loopVars, watcherVars, lastLog, histVars>>

ApiLogSpec == ApiLogInit /\ [][LogConfiguration]_vars

(***************************************************************************)
(* One call of config.Load                                                 *)
(***************************************************************************)

ConfigInit ==
    /\ \E env \in SUBSET EnvNames, file \in FileStates :
         \E keys \in (IF file = "ok" THEN FileKeySets ELSE {{}}) :
            conf = [pc |-> "read", env |-> env, file |-> file, keys |-> keys,
                    cfg |-> NoConfig, err |-> FALSE]
    /\ NoClientCall
    /\ OutsideCall

nonConfigVars == <<cfgAction, restarts, tagIDs, appVars, clientVars, fsVars, mainVars, loopVars,
                   watcherVars, lastLog, histVars, ignored, late, service, apiLog>>

(* viper.ReadInConfig(): every error but ConfigFileNotFoundError is        *)
(* returned.                                                               *)
ReadInConfig ==
    /\ conf.pc = "read"
    /\ IF conf.file \in {"unreadable", "unparsable"}
       THEN conf' = [conf EXCEPT !.pc = "returned", !.err = TRUE]
       ELSE conf' = [conf EXCEPT !.pc = "unmarshal"]
    /\ UNCHANGED nonConfigVars

(* viper.Unmarshal(&cfg) and the return of the configuration.              *)
UnmarshalConfig ==
    /\ conf.pc = "unmarshal"
    /\ conf' = [conf EXCEPT !.pc = "returned", !.cfg = Unmarshal(conf.env, conf.keys)]
    /\ UNCHANGED nonConfigVars

ConfigNext == ReadInConfig \/ UnmarshalConfig

ConfigSpec == ConfigInit /\ [][ConfigNext]_vars

(***************************************************************************)
(* Properties                                                              *)
(***************************************************************************)

Range(q) == {q[i] : i \in 1..Len(q)}

(* The steps of the two flows, told by where a flow is before and after.   *)
SweepUploadStep == mainPc = "sweepUpload" /\ mainPc' # "sweepUpload"
LoopUploadStep == loopPc = "upload" /\ loopPc' # "upload"
SweepPostStep == mainPc = "sweepPost" /\ mainPc' # "sweepPost"
LoopPostStep == loopPc = "post" /\ loopPc' # "post"

(* C1: in watchDirectory the subscription on the watch folder is           *)
(* established (watcher.Add has returned nil) and the event-loop goroutine *)
(* has been started before the sweep makes its first upload attempt.       *)
C1_SubscribedBeforeSweep ==
    (mainPc \in SweepPcs \/ sweepAttempted # {}) => (subscribed /\ loopPc # "notStarted")

(* The sweep has attempted an upload, under a live subscription. *)
C1_Witness == sweepAttempted # {} /\ subscribed /\ loopPc = "wait"

(* C7: if the watcher's event channel is closed by the watch subsystem,    *)
(* the event loop exits and watchDirectory stops blocking and returns to   *)
(* its caller.                                                             *)
C7_ClosedChannelReturns == closed ~> (loopPc = "exited" /\ mainPc = "returned")

C2_EventuallyAttempted == \A f \in TopLevel : (f \in owed) ~> (f \notin owed \/ closed)

C3_FailedUploadTouchesNothing ==
    /\ [](mainPc = "sweepPost" => okPending["sweep"])
    /\ [](loopPc = "post" => okPending["loop"])
    /\ [][(SweepUploadStep /\ ~okPending'["sweep"])
            => (mainPc' # "sweepPost" /\ files' = files /\ processed' = processed)]_vars
    /\ [][(LoopUploadStep /\ ~okPending'["loop"])
            => (loopPc' # "post" /\ files' = files /\ processed' = processed)]_vars

(* The sweep's upload of a file failed under action delete: the sweep is   *)
(* back in the walk, no disposition has run and the file is still there.   *)
C3_Witness ==
    /\ cfgAction = "delete" /\ mainPc = "walking"
    /\ sweepCur \in sweepAttempted /\ sweepCur \in files
    /\ lastLog = "-" /\ created = 0

(* C4, as amended: exactly one disposition runs per successful upload, and *)
(* it is the configured one: handlePostUpload is due exactly between a     *)
(* successful upload and the flow's next step, which runs it.  A file that *)
(* both the sweep and the event loop upload gets one from each.            *)
ConfiguredLogs ==
    CASE cfgAction = "delete" -> {"deleted", "delete failed"}
      [] cfgAction = "move" -> {"moved", "move failed", "mkdir failed"}
      [] OTHER -> {"none"}
C4_OneDispositionPerUpload ==
    /\ [](okPending["sweep"] <=> mainPc = "sweepPost")
    /\ [](okPending["loop"] <=> loopPc = "post")
    /\ [][(SweepPostStep \/ LoopPostStep) => lastLog' \in ConfiguredLogs]_vars

(* One file has had a disposition from the sweep and one from the loop. *)
C4_Witness == \E f \in Paths : dispBy[f] = Flows

(* C4, as claimed: for every file uploaded successfully exactly one        *)
(* disposition runs, also when the sweep and the loop both process it.     *)
C4_OneDispositionPerFile == \A f \in Paths : Cardinality(dispBy[f]) <= 1

(* A flow runs handlePostUpload on p in this step. *)
PostOn(p) == (SweepPostStep /\ sweepCur = p) \/ (LoopPostStep /\ loopCur = p)

(* C5: handlePostUpload applied to an existing source file, when no        *)
(* os.Remove, os.MkdirAll or os.Rename it makes fails: with action none    *)
(* the file stays at its path; with delete no file remains at the original *)
(* path; with move no file remains at the original path and exactly one    *)
(* file with the same base name exists under the processed folder, which   *)
(* then exists whether or not it did before.                               *)
C5_DispositionEffect ==
    [][\A p \in files :
         (PostOn(p) /\ lastLog' \notin FailureLogs) =>
            CASE cfgAction = "delete" -> p \notin files' /\ processed' = processed
              [] cfgAction = "move" ->
                   /\ p \notin files'
                   /\ processedDir'
                   /\ p \in processed'
                   /\ Cardinality({q \in processed' : Base(q) = Base(p)}) = 1
              [] OTHER -> files' = files /\ processed' = processed]_vars

(* A file has been moved into a processed folder that already held one of  *)
(* the same base name.                                                     *)
C5_Witness ==
    /\ cfgAction = "move" /\ lastLog = "moved" /\ processedDir
    /\ mainPc = "walking" /\ sweepCur = "w/sub/a"
    /\ "w/sub/a" \in processed /\ "w/sub/a" \notin files
    /\ dispBy["w/a"] # {} /\ "w/a" \notin files /\ "w/a" \notin processed

(* C6: after an upload fails in the event loop the loop is back waiting,   *)
(* the file is where it was, and the loop makes no further upload attempt  *)
(* until it receives another creation event: it starts handling a path     *)
(* only by taking an event for that path from the channel.                 *)
C6_NoRetry ==
    /\ [][(LoopUploadStep /\ ~okPending'["loop"])
            => (loopPc' = "wait" /\ files' = files /\ events' = events)]_vars
    /\ [][(loopPc' \in {"settle", "upload"} /\ loopPc \notin {"settle", "upload"})
            => (/\ loopPc = "wait"
                /\ events # <<>>
                /\ loopCur' = Head(events)
                /\ events' = Tail(events))]_vars
    /\ [][(loopPc' = "upload" /\ loopPc # "upload") => (loopPc = "settle" /\ loopCur' = loopCur)]_vars

(* The loop's upload of a file failed: the loop waits, no disposition has  *)
(* run, the file is in the watch folder and no event is left for it.       *)
C6_Witness ==
    /\ loopPc = "wait" /\ loopCur \in files /\ lastLog = "-"
    /\ events = <<>> /\ ~closed /\ mainPc = "waitDone"

(* C8: a watcher error is only logged: the step that takes it from         *)
(* watcher.Errors leaves the loop waiting and changes no file and no       *)
(* queued event, and the loop exits only when the channels are closed.     *)
C8_ErrorsDoNotStopLoop ==
    /\ [](loopPc = "exited" => closed)
    /\ [][(errsLogged' # errsLogged)
            => (loopPc' = "wait" /\ files' = files /\ processed' = processed /\ events' = events)]_vars

(* After a logged error the loop is uploading a file for a creation event. *)
C8_Witness == errsLogged = MaxErrors /\ loopPc = "post" /\ ~closed

(* C9: an error while handling one entry of the sweep is isolated: when    *)
(* the sweep is over no regular file it had listed is left unvisited.      *)
C9_SweepErrorIsolated == (mainPc = "waitDone") => (Range(walkTodo) \cap files = {})

(* C10: every regular file present under the watch folder when the         *)
(* pipeline starts, files in (readable) subdirectories included, has had   *)
(* an upload attempt by the sweep when the sweep is over.                  *)
C10_PreexistingAttempted ==
    (mainPc = "waitDone") =>
        \A f \in initFiles : (f \in InSub /\ subDir = "unreadable") \/ f \in sweepAttempted

(* C11: nothing is remembered across a restart: a file whose upload had    *)
(* not succeeded when the process stopped is still at its path, and when   *)
(* the sweep of the next start is over it has attempted an upload of every *)
(* regular file (of a readable directory) that was there at that start.    *)
C11_RestartSweepAttempts ==
    (restarts > 0 /\ mainPc = "waitDone") =>
        \A f \in initFiles : (f \in InSub /\ subDir = "unreadable") \/ f \in sweepAttempted

(* The first half of C11 on its own: a file leaves its path only in the    *)
(* handlePostUpload that follows a successful upload of it, before or      *)
(* after a restart, and a restart moves no file.                           *)
C11_FileStaysUntilUploaded ==
    /\ [][\A f \in files \ files' : PostOn(f) /\ (okPending["sweep"] \/ okPending["loop"])]_vars
    /\ [][(restarts' # restarts) => (files' = files /\ initFiles' = files /\ sweepAttempted' = {})]_vars

(* A flow has an upload of p in flight: it has entered the call of         *)
(* client.UploadDocument for p and the call has not returned.              *)
Uploading(fl, p) ==
    IF fl = "sweep" THEN mainPc = "sweepUpload" /\ sweepCur = p
                    ELSE loopPc = "upload" /\ loopCur = p

(* C12, as claimed: at no time are two uploads of the same file in flight  *)
(* together, whatever the interleaving of the sweep and the event loop.    *)
C12_NoParallelUploads == \A p \in Paths : ~(Uploading("sweep", p) /\ Uploading("loop", p))

(* C12, as amended: each flow handles one file at a time, starting on its  *)
(* next file only when the upload and the disposition of its previous one  *)
(* are over; the sweep and the loop do upload the same file together, but  *)
(* only a file created directly in the watch folder during the run.        *)
C12_OneFileAtATimePerFlow ==
    /\ [][(mainPc' = "sweepUpload" /\ mainPc # "sweepUpload")
            => (mainPc = "walking" /\ ~okPending["sweep"])]_vars
    /\ [][(loopPc' = "settle" /\ loopPc # "settle")
            => (loopPc = "wait" /\ ~okPending["loop"])]_vars
    /\ [](\A p \in Paths : (Uploading("sweep", p) /\ Uploading("loop", p))
                              => (p \in TopLevel /\ p \notin initFiles))

(* The sweep and the event loop are both uploading the same file. *)
C12_Witness == \E p \in Paths : Uploading("sweep", p) /\ Uploading("loop", p)

(* There is a file of the base name of p in the processed folder.          *)
InProcessed(p, proc) == \E q \in proc : Base(q) = Base(p)

(* C13: the event loop handles each creation event it takes from the       *)
(* channel by the settle delay, then one upload attempt for the event's    *)
(* path with the tag ids resolved at startup, then, on success only, the   *)
(* configured disposition, then it waits again; a move that no system call *)
(* refuses leaves no file at the original path and one of the same base    *)
(* name in the processed folder.                                           *)
C13_EventHandledOnce ==
    /\ [][tagIDs' = tagIDs]_vars
    /\ [][(loopPc = "wait" /\ loopPc' # "wait" /\ ~closed)
            => (events # <<>> /\ loopCur' = Head(events) /\ events' = Tail(events)
                /\ loopPc' = "settle")]_vars
    /\ [][(loopPc = "settle" /\ loopPc' # "settle")
            => (loopPc' = "upload" /\ loopCur' = loopCur /\ sentTags' = sentTags)]_vars
    /\ [][LoopUploadStep
            => (/\ sentTags' = sentTags \cup {tagIDs}
                /\ loopCur' = loopCur
                /\ loopPc' = (IF okPending'["loop"] THEN "post" ELSE "wait"))]_vars
    /\ [][LoopPostStep
            => (/\ loopPc' = "wait"
                /\ sentTags' = sentTags
                /\ lastLog' \in ConfiguredLogs
                /\ (lastLog' = "moved")
                      => (loopCur \notin files' /\ InProcessed(loopCur, processed')))]_vars
    /\ [][(sentTags' # sentTags) => (SweepUploadStep \/ LoopUploadStep)]_vars

(* The event loop alone has uploaded a file created during the run, with   *)
(* the resolved tag ids, and has moved it to the processed folder.         *)
C13_Witness ==
    /\ cfgAction = "move" /\ lastLog = "moved" /\ loopPc = "wait"
    /\ sweepAttempted = {} /\ sentTags = {tagIDs} /\ tagIDs # <<>>
    /\ loopCur \notin initFiles /\ loopCur \notin files /\ loopCur \in processed
    /\ dispBy[loopCur] = {"loop"}

(* The ids of the catalog entries whose name is among names.               *)
MatchingIDs(names, catalog) == {t.ID : t \in {x \in Range(catalog) : x.Name \in Range(names)}}

(* C14: the step of runApp that resolves the tags yields exactly the ids   *)
(* of the configured names the fetched catalog holds, logs a warning for   *)
(* each configured name it does not hold and goes on without an error;     *)
(* the ids are not changed afterwards and every upload of the run, by      *)
(* runApp itself, the sweep or the event loop, is given them.              *)
C14_TagResolution ==
    /\ [][(runPc = "resolve" /\ runPc' # "resolve")
            => (/\ Range(tagIDs') = MatchingIDs(cfgTags, allTags)
                /\ warned' = {n \in Range(cfgTags) : \A t \in Range(allTags) : t.Name # n}
                /\ runPc' = "mode"
                /\ runErr' = "-")]_vars
    /\ [][(runPc # "resolve") => (tagIDs' = tagIDs /\ warned' = warned)]_vars
    /\ [][sentTags' \subseteq sentTags \cup {tagIDs}]_vars
    /\ [](sentTags # {} => runPc \in {"watch", "returned"})

(* The catalog holds "invoices" as 1, "invoices" and "missing" are         *)
(* configured: uploads of the pipeline have been given the ids {1}, and    *)
(* "missing" has been warned about.                                        *)
C14_Witness ==
    /\ cfgTags = <<"invoices", "missing">> /\ tagIDs = <<1>> /\ warned = {"missing"}
    /\ runPc = "watch" /\ sentTags = {<<1>>} /\ loopPc = "post" /\ sweepAttempted # {}

(* What runApp returns after an upload attempt of its own.                 *)
UploadResults == {"nil", "failed to upload document"}

C16_DispositionFailureLogged ==
    /\ [][(SweepPostStep /\ lastLog' \in FailureLogs)
            => (/\ mainPc' = "walking" /\ walkTodo' = walkTodo /\ mainErr' = mainErr
                /\ files' = files /\ processed' = processed
                /\ sentTags' = sentTags /\ sweepAttempted' = sweepAttempted
                /\ ~okPending'["sweep"])]_vars
    /\ [][(LoopPostStep /\ lastLog' \in FailureLogs)
            => (/\ loopPc' = "wait" /\ events' = events /\ mainErr' = mainErr
                /\ files' = files /\ processed' = processed
                /\ sentTags' = sentTags /\ sweepAttempted' = sweepAttempted
                /\ ~okPending'["loop"])]_vars
    /\ [][(SweepPostStep \/ LoopPostStep)
            => (lastLog' \in FailureLogs <=> (cfgAction # "" /\ files' = files))]_vars

(* The move of "w/a" by the sweep has failed, the file is where it was,    *)
(* and the sweep is uploading the next file.                               *)
C16_Witness ==
    /\ created = 0 /\ lastLog = "move failed" /\ "w/a" \in files
    /\ dispBy["w/a"] = {"sweep"} /\ mainPc = "sweepUpload" /\ sweepCur = "w/z"

(* C17: under action move, a handlePostUpload that finds no processed      *)
(* folder and cannot create it stops there: it logs that failure and not   *)
(* one of os.Rename, which it does not call, and the source file and the   *)
(* processed folder are as they were.                                      *)
C17_MkdirFailureAbortsMove ==
    /\ [][((SweepPostStep \/ LoopPostStep) /\ cfgAction = "move" /\ ~processedDir /\ ~processedDir')
            => (lastLog' = "mkdir failed" /\ files' = files /\ processed' = processed)]_vars
    /\ [][((SweepPostStep \/ LoopPostStep) /\ lastLog' = "mkdir failed")
            => (cfgAction = "move" /\ ~processedDir /\ ~processedDir')]_vars

(* The sweep uploaded a file and could not create the processed folder:    *)
(* the file is still in the watch folder and the folder does not exist.    *)
C17_Witness ==
    /\ cfgAction = "move" /\ lastLog = "mkdir failed" /\ ~processedDir /\ created = 0
    /\ mainPc = "walking" /\ sweepCur \in files /\ dispBy[sweepCur] = {"sweep"}
    /\ processed = {}

(* C18, as claimed (second half): under action delete no flow is in        *)
(* handlePostUpload for a path that has already been deleted.              *)
C18_NoDeleteOnDeletedPath ==
    (cfgAction = "delete") =>
        /\ (mainPc = "sweepPost" => sweepCur \in files)
        /\ (loopPc = "post" => loopCur \in files)

(* C18, as amended: each handlePostUpload uses up one successful upload of *)
(* its flow, so a disposition runs at most once per successful upload; it  *)
(* does not look whether the path is still there: when the other flow has  *)
(* deleted the file in between, os.Remove is attempted on the missing      *)
(* path, fails, is logged and changes nothing.                             *)
C18_OncePerUpload ==
    /\ [][SweepPostStep => (okPending["sweep"] /\ ~okPending'["sweep"])]_vars
    /\ [][LoopPostStep => (okPending["loop"] /\ ~okPending'["loop"])]_vars
    /\ [][(okPending'["sweep"] /\ ~okPending["sweep"]) => SweepUploadStep]_vars
    /\ [][(okPending'["loop"] /\ ~okPending["loop"]) => LoopUploadStep]_vars
    /\ [][\A p \in Paths :
            (PostOn(p) /\ cfgAction = "delete" /\ p \notin files)
               => (/\ lastLog' = "delete failed"
                   /\ files' = files
                   /\ dispBy[p] # {}
                   /\ p \in TopLevel)]_vars

(* Both flows uploaded a file and the second os.Remove found it gone.      *)
C18_Witness ==
    \E p \in Paths : /\ cfgAction = "delete" /\ dispBy[p] = Flows
                     /\ lastLog = "delete failed" /\ p \notin files
                     /\ created = 1 /\ mainPc = "waitDone" /\ loopPc = "wait"

(* The text t occurs in the text s.                                        *)
Contains(s, t) ==
    /\ Len(t) <= Len(s)
    /\ \E i \in 0..(Len(s) - Len(t)) : SubSeq(s, i + 1, i + Len(t)) = t

(* The call has returned after the service answered.                       *)
Answered == clPc \in {"returned", "branched"} /\ clOpenOk /\ clSendOk

(* The 2xx statuses. *)
SuccessStatus(s) == s >= 200 /\ s <= 299

(* C19: when the service answers with a status that is not a success      *)
(* status, UploadDocument returns an error whose message contains the      *)
(* status code in decimal and the text of the response body, and the       *)
(* caller, sweep or event loop, does not go on to handlePostUpload.        *)
C19_StatusErrorMessage ==
    (Answered /\ ~SuccessStatus(clStatus)) =>
        /\ ~clErr.isNil
        /\ Contains(clErr.msg, clBody)
        /\ Contains(clErr.msg, Itoa(clStatus))
        /\ (clStatus = 500) => Contains(clErr.msg, <<"5", "0", "0">>)
        /\ (clStatus = 404) => Contains(clErr.msg, <<"4", "0", "4">>)
        /\ (clPc = "branched") => clNext = (IF clCaller = "sweep" THEN "walking" ELSE "wait")

(* Status 500 with body "server error": the message holds both and the     *)
(* sweep goes on with its walk.                                            *)
C19_Witness ==
    /\ clPc = "branched" /\ clCaller = "sweep" /\ clNext = "walking"
    /\ clStatus = 500 /\ clBody = ServerErrorBody
    /\ Contains(clErr.msg, <<"5", "0", "0">>)
    /\ Contains(clErr.msg, <<"s", "e", "r", "v", "e", "r", " ", "e", "r", "r", "o", "r">>)

(* C20, as claimed: once the service has answered, UploadDocument returns  *)
(* an error exactly when the status is not a success (2xx) status.         *)
C20_FailsIffNotSuccess == Answered => (clErr.isNil <=> SuccessStatus(clStatus))

(* C20, as amended: once the service has answered, UploadDocument returns  *)
(* nil exactly when the status is 200; for every other status, the other   *)
(* 2xx statuses included, it returns the status error.                     *)
C20_FailsIffNot200 ==
    Answered =>
        /\ clErr.isNil <=> (clStatus = 200)
        /\ ~clErr.isNil => (Head(clErr.msg) = "failed to upload document: received status code "
                            /\ clRequests = 1)

(* The service answered 204 and UploadDocument returned an error.          *)
C20_Witness == Answered /\ clStatus = 204 /\ ~clErr.isNil /\ clPc = "branched" /\ clNext = "wait"

(* C21: when the file cannot be opened, UploadDocument returns an error    *)
(* whose message starts with "failed to open file" and contains the path,  *)
(* and it has sent no request; a request is sent only after the file was   *)
(* opened.                                                                 *)
C21_OpenFailureNoRequest ==
    /\ (clPc \in {"returned", "branched"} /\ ~clOpenOk) =>
          /\ ~clErr.isNil
          /\ Head(clErr.msg) = "failed to open file: "
          /\ Contains(clErr.msg, <<clPath>>)
          /\ clRequests = 0
    /\ (clRequests > 0) => clOpenOk

(* The call for "w/z" has returned the open error to the event loop.       *)
C21_Witness ==
    /\ clPc = "branched" /\ ~clOpenOk /\ clPath = "w/z" /\ clCaller = "loop" /\ clNext = "wait"
    /\ clRequests = 0 /\ Contains(clErr.msg, <<"w/z">>)

SingleFileRun == ~flagCreate /\ ~flagWatch /\ flagFile # "" /\ runPc \in {"mode", "returned"}

(* C23: with -watch=false and -file given, runApp makes one UploadDocument *)
(* call, of that path with the resolved tag ids, starts no watcher and no  *)
(* sweep, makes no disposition, and returns nil exactly when the upload    *)
(* succeeded.                                                              *)
C23_SingleFileMode ==
    [][SingleFileRun =>
          /\ (runPc = "mode" /\ runPc' = "returned") =>
                /\ clCaller = "-" /\ clCaller' = "runApp" /\ clPath' = flagFile
                /\ sentTags = {} /\ sentTags' = {tagIDs}
                /\ (runErr' = "nil") <=> clErr'.isNil
                /\ (runErr' # "nil") => runErr' = "failed to upload document"
                /\ (flagFile \notin files) => ~clErr'.isNil
          /\ (runPc = "returned" /\ runErr \notin {"failed to load configuration",
                                                   "failed to get tags from Paperless"}) =>
                clCaller = "runApp"
          /\ (runPc = "returned") => (sentTags' = sentTags /\ clErr' = clErr /\ runErr' = runErr)
          /\ mainPc' = "notCalled" /\ loopPc' = "notStarted" /\ ~subscribed'
          /\ lastLog' = "-" /\ processed' = {} /\ initFiles \subseteq files'
          /\ \A p \in Paths : dispBy'[p] = {}]_vars

(* A single-file run whose upload failed returned the upload error, and    *)
(* sent the one resolved tag id.                                           *)
C23_Witness ==
    /\ ~flagWatch /\ flagFile = "w/a" /\ runPc = "returned" /\ clCaller = "runApp"
    /\ runErr = "failed to upload document" /\ ~clErr.isNil /\ "w/a" \in files
    /\ sentTags = {<<1>>} /\ mainPc = "notCalled"

(* C24: with -create-config runApp returns at once, without loading the    *)
(* configuration, fetching tags, uploading or watching; an existing        *)
(* config.yaml without -force gives an error and is left as it is; in      *)
(* every other case the example is written (over the existing file with    *)
(* -force) unless the write itself fails.                                  *)
C24_CreateConfig ==
    [][flagCreate =>
          /\ runPc' \in {"start", "returned"}
          /\ tagIDs' = <<>> /\ allTags' = <<>> /\ sentTags' = {} /\ clCaller' = "-"
          /\ mainPc' = "notCalled" /\ loopPc' = "notStarted"
          /\ (runPc = "start" /\ runPc' = "returned") =>
                /\ (configYaml # "absent" /\ ~flagForce) =>
                      (runErr' = "config.yaml already exists" /\ configYaml' = configYaml)
                /\ (configYaml = "absent" \/ flagForce) =>
                      \/ runErr' = "nil" /\ configYaml' = "example"
                      \/ runErr' = "failed to write config file"
          /\ (runPc = "returned") => (configYaml' = configYaml /\ runErr' = runErr)]_vars

(* A run with -create-config and no -force found a config.yaml, returned   *)
(* the error and left the file.                                            *)
C24_Witness ==
    /\ flagCreate /\ ~flagForce /\ runPc = "returned" /\ configYaml = "malformed"
    /\ runErr = "config.yaml already exists" /\ tagIDs = <<>> /\ sentTags = {}

(* The built-in default of an option; the API key has none.                *)
BuiltIn(k) == IF k = "api_key" THEN <<"">> ELSE Default(k)

(* What the precedence environment over file over default gives.           *)
ByPrecedence(k) ==
    IF EnvName(k) \in conf.env THEN DecodeEnv(k)
    ELSE IF k \in conf.keys THEN FileValue(k)
    ELSE BuiltIn(k)

(* C25: config.Load resolves every option by the precedence environment    *)
(* variable over config file over default; without a config file there is  *)
(* no error and, with no variables set, the defaults are returned; a       *)
(* config file that cannot be read or parsed gives an error.               *)
C25_Precedence ==
    (conf.pc = "returned") =>
        /\ conf.err <=> (conf.file \in {"unreadable", "unparsable"})
        /\ ~conf.err => \A k \in Options : conf.cfg[k] = ByPrecedence(k)

(* The event loop is handling an event.                                    *)
LoopBusy == loopPc \in {"settle", "upload", "post"}

(* C26: the event loop is one consumer that takes the events in the order  *)
(* of their delivery and one at a time: an event is delivered at the end   *)
(* of the queue and does not disturb the handling in progress; the loop    *)
(* takes the oldest event, and only when the upload and the disposition of *)
(* the event before are over; while it handles an event it takes no other. *)
C26_OneEventAtATime ==
    /\ [][(events' # events) =>
             \/ /\ \E p \in TopLevel : events' = Append(events, p)
                /\ loopPc' = loopPc /\ loopCur' = loopCur
             \/ /\ loopPc = "wait" /\ loopPc' = "settle" /\ ~okPending["loop"]
                /\ loopCur' = events[1] /\ events' = Tail(events)
             \/ events' = <<>> /\ closed']_vars
    /\ [][LoopBusy => (loopCur' = loopCur /\ (Len(events') >= Len(events) \/ closed'))]_vars
    /\ [][(LoopBusy /\ loopPc' # loopPc) =>
             \/ loopPc = "settle" /\ loopPc' = "upload"
             \/ LoopUploadStep /\ loopPc' \in {"post", "wait"}
             \/ LoopPostStep /\ loopPc' = "wait"]_vars

(* The loop is at the disposition of the first event while the event       *)
(* delivered after it waits in the queue.                                  *)
C26_Witness == loopPc = "post" /\ loopCur = "w/a" /\ events = <<"w/z">> /\ ~closed

(* The loop receives the oldest event of the queue.                        *)
LoopReceives == loopPc = "wait" /\ events # <<>> /\ events' = Tail(events) /\ ~closed'

(* C27: only an event that carries Create makes the loop work: on an event *)
(* that is only Write, Remove, Rename or Chmod the loop goes back to       *)
(* waiting, with no upload attempt and no disposition, and no file, in the *)
(* watch folder or in the processed folder, is touched; the settle delay   *)
(* is only ever started on an event that carries Create.                   *)
C27_OnlyCreateTriggers ==
    /\ [][(LoopReceives /\ "Create" \notin eventOps[1]) =>
             /\ loopPc' = "wait" /\ loopCur' = loopCur
             /\ sentTags' = sentTags /\ okPending' = okPending /\ owed' = owed
             /\ dispBy' = dispBy /\ lastLog' = lastLog
             /\ files' = files /\ processed' = processed /\ processedDir' = processedDir]_vars
    /\ [][(loopPc = "wait" /\ loopPc' = "settle") => "Create" \in eventOps[1]]_vars

(* The loop has dropped a Write or Chmod event about a file that is still  *)
(* there, and nothing has been uploaded.                                   *)
C27_Witness ==
    /\ ignored = 1 /\ loopPc = "wait" /\ events = <<>> /\ ~closed
    /\ "w/a" \in files /\ files = initFiles /\ sentTags = {} /\ lastLog = "-"

(* The file was created in the subdirectory after the sweep of the current *)
(* run had passed.                                                         *)
LateNow(p) == <<p, restarts>> \in late

(* C28: the subscription covers the watch folder alone, the sweep the      *)
(* subdirectory too: no event is ever about a file of the subdirectory and *)
(* the loop never handles one, so a file created there after the sweep has *)
(* passed gets no upload attempt in that run; the only attempts on such a  *)
(* file are made by the sweep of a later start.                            *)
C28_LateSubdirectoryFile ==
    /\ [](\A p \in InSub : p \notin Range(events) /\ loopCur # p)
    /\ [][\A p \in InSub : (LateNow(p) /\ restarts' = restarts) =>
             /\ ~(SweepUploadStep /\ sweepCur = p)
             /\ ~(LoopUploadStep /\ loopCur = p)]_vars
    /\ [][\A p \in InSub : (\E r \in 0..MaxRestarts : <<p, r>> \in late) =>
             /\ ~(LoopUploadStep /\ loopCur = p)
             /\ (SweepUploadStep /\ sweepCur = p) => (\E r \in 0..(restarts - 1) : <<p, r>> \in late)]_vars

(* The sweep of the second start is uploading the file that was created in *)
(* the subdirectory after the sweep of the first start had passed.         *)
C28_Witness ==
    /\ restarts = 1 /\ late = {<<"w/sub/a", 0>>}
    /\ Uploading("sweep", "w/sub/a") /\ "w/sub/a" \in initFiles

(* C29: a move puts the file at the processed folder joined with the base  *)
(* name of the source, replacing what was there: after a move of p the     *)
(* folder holds p and no other file of its base name, and at all times it  *)
(* holds at most one file for a base name, however many were moved.        *)
C29_OneFilePerBaseName ==
    /\ [](\A q1 \in processed, q2 \in processed : (Base(q1) = Base(q2)) => (q1 = q2))
    /\ [][\A fl \in Flows :
            LET p == IF fl = "sweep" THEN sweepCur ELSE loopCur
                step == IF fl = "sweep" THEN SweepPostStep ELSE LoopPostStep
            IN  (step /\ lastLog' = "moved" /\ p \notin files') =>
                   /\ p \in processed'
                   /\ \A q \in processed' : (Base(q) = Base(p)) => (q = p)
                   /\ \A q \in processed : (Base(q) # Base(p)) => (q \in processed')]_vars

(* Two files of the same base name, one of the subdirectory, were uploaded *)
(* and moved; the processed folder holds the one moved last.               *)
C29_Witness ==
    /\ cfgAction = "move" /\ "w/a" \notin files /\ "w/sub/a" \notin files
    /\ dispBy["w/a"] # {} /\ dispBy["w/sub/a"] # {}
    /\ processed = {"w/sub/a"} /\ lastLog = "moved"

(* C30: -watch is true unless -watch=false is given, and it is looked at   *)
(* first: a run with -file and without -watch=false calls watchDirectory   *)
(* and never makes the single-file upload; a run with -watch=false and     *)
(* without -file returns the error that one of the two is required, with   *)
(* no upload and no watcher.                                               *)
C30_ModeSelection ==
    /\ []((runPc # "parse") =>
             /\ flagWatch <=> ("-watch=false" \notin argv)
             /\ (flagFile # "") <=> ("-file=w/a" \in argv))
    /\ []((runPc = "parse") => flagWatch)
    /\ []((argv = {"-file=w/a"}) => (clCaller # "runApp" /\ runErr # "failed to upload document"))
    /\ [][(argv = {"-file=w/a"} /\ runPc = "mode" /\ runPc' # "mode") =>
             (runPc' = "watch" /\ mainPc' = "start" /\ sentTags' = {})]_vars
    /\ [][(argv = {"-watch=false"} /\ runPc = "mode" /\ runPc' # "mode") =>
             /\ runPc' = "returned"
             /\ runErr' = "either the -file flag or the -watch flag is required"]_vars
    /\ []((argv = {"-watch=false"}) =>
             (sentTags = {} /\ clCaller = "-" /\ mainPc = "notCalled" /\ loopPc = "notStarted"))

(* A run with -file alone is watching, its sweep done, and no single-file  *)
(* upload has been made.                                                   *)
C30_Witness ==
    /\ argv = {"-file=w/a"} /\ flagWatch /\ flagFile = "w/a"
    /\ runPc = "watch" /\ mainPc = "waitDone" /\ clCaller = "-"

(* C31: under a post_upload_action that is neither "delete" nor "move",    *)
(* the empty string or any other word, handlePostUpload touches no file    *)
(* and no folder and logs nothing, no failure in particular; the flow goes *)
(* on as after any disposition.                                            *)
C31_UnknownActionIsNone ==
    [][((SweepPostStep \/ LoopPostStep) /\ cfgAction \notin {"delete", "move"}) =>
          /\ files' = files /\ processed' = processed /\ processedDir' = processedDir
          /\ watchDir' = watchDir /\ subDir' = subDir
          /\ lastLog' = "none" /\ lastLog' \notin FailureLogs
          /\ SweepPostStep => mainPc' = "walking"
          /\ LoopPostStep => loopPc' = "wait"]_vars

(* handlePostUpload has returned under the misspelt action "Move" and the  *)
(* uploaded file is where it was.                                          *)
C31_Witness ==
    /\ cfgAction = "Move" /\ dispBy["w/a"] = {"loop"} /\ loopPc = "wait"
    /\ "w/a" \in files /\ files = initFiles /\ processed = {} /\ lastLog = "none"

(* The statuses Execute has reported, and the last of them.                *)
Reported == service.changes
LastReported == IF Reported = <<>> THEN "-" ELSE Reported[Len(Reported)]

(* C32: as a service, Execute reports StartPending, then Running, and only *)
(* then starts runApp; from then on every status it reports is Running,    *)
(* whatever runApp does or returns, until a Stop or Shutdown request,      *)
(* on which it reports StopPending and returns; that step leaves runApp    *)
(* and the pipeline where they are; no other request ends Execute.         *)
C32_ServiceStatus ==
    /\ []((runPc # "notCalled") =>
             (Len(Reported) >= 2 /\ Reported[1] = "StartPending" /\ Reported[2] = "Running"))
    /\ []((service.pc = "loop") =>
             (LastReported = "Running" /\ \A i \in 2..Len(Reported) : Reported[i] = "Running"))
    /\ [][(service.pc # "returned" /\ service'.pc = "returned") =>
             /\ service.pc = "loop" /\ Head(service.r) \in {"Stop", "Shutdown"}
             /\ service'.changes = Append(Reported, "StopPending")
             /\ runPc' = runPc /\ runErr' = runErr /\ mainPc' = mainPc /\ loopPc' = loopPc
             /\ subscribed' = subscribed /\ closed' = closed]_vars
    /\ [][(service.pc = "loop" /\ service.r # <<>> /\ Head(service.r) \in {"Stop", "Shutdown"}
           /\ service'.r # service.r /\ Len(service'.r) < Len(service.r))
             => service'.pc = "returned"]_vars

(* runApp has returned an error, an interrogation has been answered, and   *)
(* the service still reports Running.                                      *)
C32_Witness ==
    /\ service.pc = "loop" /\ runPc = "returned" /\ runErr = "failed to load configuration"
    /\ Reported = <<"StartPending", "Running", "Running">> /\ service.r = <<>>

(* The last four bytes of a key.                                           *)
LastFour(key) == SubSeq(key, Len(key) - 3, Len(key))

(* C33, as claimed: the log of the configuration never holds the whole API *)
(* key: of a key longer than 4 it shows "..." and the last 4, of a shorter *)
(* one the fixed text.                                                     *)
C33_NeverWholeKey ==
    (apiLog.pc = "logged") =>
        /\ (Len(apiLog.key) > 4) =>
              /\ apiLog.shown = <<".", ".", ".">> \o LastFour(apiLog.key)
              /\ ~Contains(apiLog.shown, apiLog.key)
        /\ (Len(apiLog.key) <= 4) => apiLog.shown = TooShort

(* C33, as amended: of a key longer than 4 bytes the log shows "..." and   *)
(* the last 4 bytes, of a shorter one the fixed text, whatever the key;    *)
(* the whole key is in what is shown only when the key is at most 7 bytes  *)
(* long and made of dots up to its last 4 bytes.                           *)
C33_LastFourBytesOnly ==
    (apiLog.pc = "logged") =>
        /\ (Len(apiLog.key) > 4) =>
              /\ apiLog.shown = <<".", ".", ".">> \o LastFour(apiLog.key)
              /\ Contains(apiLog.shown, apiLog.key) =>
                    /\ Len(apiLog.key) <= 7
                    /\ \A i \in 1..(Len(apiLog.key) - 4) : apiLog.key[i] = "."
        /\ (Len(apiLog.key) <= 4) => apiLog.shown = TooShort

(* A key of 6 bytes has been logged as "..." and its last 4 bytes.         *)
C33_Witness ==
    /\ apiLog.pc = "logged" /\ apiLog.key = <<"a", "a", ".", "a", "a", "a">>
    /\ apiLog.shown = <<".", ".", ".", ".", "a", "a", "a">>

====
